---- MODULE Spec2Model ----
(***************************************************************************)
(* Model of the ARR calculator: the Stripe synchronization cache (the     *)
(* cursor-based lib/stripeSyncStore.ts: ensureStripeSyncForRange under its *)
(* write lock, the read-only queries), the generateStripeReport that reads *)
(* it (lib/stripeReport.ts), the /api/stripe-sync handler, the CRM report  *)
(* (lib/logic.ts, lib/fx.ts, lib/report.ts), and the HTTP clients' retry   *)
(* loop and mapWithConcurrency (Stripe client, lib/hubspot.ts).            *)
(*                                                                         *)
(* Time is in milliseconds, scaled down: a second has MsPerSec ms and a    *)
(* day SecPerDay seconds.  A date string is modelled by the number of the  *)
(* local day it parses to (BadDate: a string parseDate rejects).           *)
(***************************************************************************)
EXTENDS Integers, Sequences, FiniteSets, TLC

VARIABLES
  now,      \* Date.now()
  env,      \* process.env: [kv, maxInvoices, autoSync]
  ledger,   \* the remote ledger: invoices in list order (newest first)
  disk,     \* the persisted document (STORE_PATH file or STORE_KEY value)
  chain,    \* writeLock: the callers whose run is chained and not settled
  call,     \* call[p]: the ensureStripeSyncForRange invocation of caller p
  reader,   \* a getSyncedStripeLineItemsForRange call in progress
  report,   \* a generateStripeReport call in progress
  cache,    \* REPORT_CACHE
  pure,     \* a function or a route handler on its own: its arguments and result
  hist      \* observations of the calls made so far (history variable)

vars == <<now, env, ledger, disk, chain, call, reader, report, cache, pure, hist>>
others == <<reader, report, cache, pure>>

----------------------------------------------------------------------------
(* Bounds of the model *)

MsPerSec == 2
SecPerDay == 1
MaxDay == 3
MaxTicks == 2
MaxCallers == 2
MaxBatch == 2

(* Configuration (process.env values the model runs with) *)

MAX_HISTORY_DAYS == 2
SYNC_FRESHNESS_MS == 1
REPORT_CACHE_TTL_MS == 2
STRIPE_SYNC_DEFAULT_LOOKBACK_DAYS == 2
STRIPE_SYNC_CRON_ITERATIONS == 8
MAX_ITERATIONS == 20

DayMs == SecPerDay * MsPerSec
StartNow == (MAX_HISTORY_DAYS + 1) * DayMs
BadDate == 0
Dates == 0..MaxDay
NoCursor == ""

Max(a, b) == IF a >= b THEN a ELSE b
Min(a, b) == IF a <= b THEN a ELSE b

----------------------------------------------------------------------------
(* The remote ledger *)

FirstSec(d) == d * SecPerDay
LastSec(d) == d * SecPerDay + SecPerDay - 1

Line(id, s, e, amt) == [id |-> id, start |-> s, end |-> e, amount |-> amt]

InvC == [id |-> "in_c", created |-> FirstSec(3),
         lines |-> <<Line("li_1", FirstSec(3), FirstSec(4), 300)>>]
InvB == [id |-> "in_b", created |-> LastSec(2),
         lines |-> <<Line("li_1", FirstSec(2), FirstSec(3), 200),
                     Line("li_9", 0, FirstSec(3), 900)>>]
InvA == [id |-> "in_a", created |-> FirstSec(1),
         lines |-> <<Line("li_2", FirstSec(1), FirstSec(4), 100),
                     Line(" ", FirstSec(1), FirstSec(2), 700)>>]

Ledgers == { <<InvC, InvB, InvA>> }

Trim(s) == IF s = " " THEN "" ELSE s

KeyOf(invoiceId, lineItemId) == invoiceId \o ":" \o lineItemId

----------------------------------------------------------------------------
(* The store document *)

NoItems == [k \in {} |-> 0]

emptyStore ==
  [version |-> 1, updatedAtTs |-> 0, lastSyncStartTs |-> 0, lastSyncEndTs |-> 0,
   activeRangeStartTs |-> 0, activeRangeEndTs |-> 0,
   nextInvoiceCursor |-> NoCursor, rangeExhausted |-> FALSE,
   itemsByKey |-> NoItems]

Absent == [kind |-> "absent", doc |-> emptyStore]
Corrupt == [kind |-> "corrupt", doc |-> emptyStore]
Doc(store) == [kind |-> "doc", doc |-> store]

parseStore(raw) ==
  IF raw.kind # "doc" THEN emptyStore
  ELSE IF raw.doc.version # 1 THEN emptyStore
  ELSE raw.doc

readStore == parseStore(disk)

(* lines 358-383: the key-value request returns the stored text, or throws *)
(* on a rejected request, a non-OK status, an unparseable body or an error *)
(* field                                                                   *)
KvOutcomes == {"ok", "network", "http", "body", "error"}
kvCommand(outcome, raw) ==
  IF outcome = "ok" THEN [thrown |-> FALSE, result |-> raw]
  ELSE [thrown |-> TRUE, result |-> Absent]

(* lines 385-392: a file that cannot be read is an empty snapshot *)
FsOutcomes == {"ok", "enoent", "eio"}
readStoreLocal(outcome, raw) ==
  IF outcome = "ok" THEN parseStore(raw) ELSE emptyStore

(* lines 399-405 *)
readStoreFrom(kv, outcome, raw) ==
  IF kv
    THEN IF kvCommand(outcome, raw).thrown
           THEN [status |-> "rejected", store |-> emptyStore]
           ELSE [status |-> "ok", store |-> parseStore(kvCommand(outcome, raw).result)]
    ELSE [status |-> "ok", store |-> readStoreLocal(outcome, raw)]

----------------------------------------------------------------------------
(* Dates and ranges *)

parseDate(v) == IF v >= 1 THEN v ELSE BadDate

startOfDayTs(d) == d * DayMs
endOfDayTs(d) == d * DayMs + DayMs - 1

clampHistoryStartTs(ts, t) == Max(ts, t - MAX_HISTORY_DAYS * DayMs)

(* a range whose end may lie before its start *)
parseRangeAnyOrder(startDate, endDate) ==
  IF parseDate(startDate) = BadDate \/ parseDate(endDate) = BadDate
    THEN [error |-> "Invalid startDate/endDate", startTs |-> 0, endTs |-> 0]
    ELSE [error |-> "", startTs |-> startOfDayTs(parseDate(startDate)),
          endTs |-> endOfDayTs(parseDate(endDate))]

parseRange(startDate, endDate) ==
  LET start == parseDate(startDate)
      end == parseDate(endDate)
  IN IF start = BadDate \/ end = BadDate
       THEN [error |-> "Invalid startDate/endDate", startTs |-> 0, endTs |-> 0]
     ELSE IF endOfDayTs(end) < startOfDayTs(start)
       THEN [error |-> "endDate must be >= startDate", startTs |-> 0, endTs |-> 0]
     ELSE [error |-> "", startTs |-> startOfDayTs(start), endTs |-> endOfDayTs(end)]

overlaps(periodStartTs, periodEndTs, rangeStartTs, rangeEndTs) ==
  periodStartTs <= rangeEndTs /\ periodEndTs >= rangeStartTs

----------------------------------------------------------------------------
(* listInvoiceBatchWithLineItems: one bounded page of the ledger.  It lists *)
(* the invoices created within [createdGte, createdLte] that follow the     *)
(* invoice startingAfter in list order, at most maxInvoices of them.        *)

IndexOf(seq, id) ==
  IF \E i \in 1..Len(seq) : seq[i].id = id
    THEN CHOOSE i \in 1..Len(seq) : seq[i].id = id
    ELSE 0

listInvoiceBatchWithLineItems(led, q) ==
  LET from == IF q.startingAfter = NoCursor THEN 0 ELSE IndexOf(led, q.startingAfter)
      idx == [i \in 1..Len(led) |-> i]
      match == SelectSeq(idx, LAMBDA i :
                 /\ i > from
                 /\ led[i].created >= q.createdGte
                 /\ led[i].created <= q.createdLte)
      n == Min(Len(match), q.maxInvoices)
      page == [j \in 1..n |-> led[match[j]]]
  IN [invoicesWithLines |-> page,
      hasMore |-> Len(match) > n,
      nextStartingAfter |-> IF n = 0 THEN NoCursor ELSE page[n].id,
      fetchedInvoices |-> n]

----------------------------------------------------------------------------
(* The merge of a batch into itemsByKey *)

(* An insert that keeps what is stored under a key already present *)
PutIfAbsent(items, key, value) ==
  [k \in (DOMAIN items) \cup {key} |-> IF k \in DOMAIN items THEN items[k] ELSE value]

Put(items, key, value) ==
  [k \in (DOMAIN items) \cup {key} |-> IF k = key THEN value ELSE items[k]]

SyncedItem(inv, line) ==
  [key |-> KeyOf(inv.id, Trim(line.id)),
   invoiceId |-> inv.id,
   invoiceCreatedTs |-> inv.created * MsPerSec,
   lineItemId |-> Trim(line.id),
   amountMinor |-> line.amount,
   periodStartTs |-> line.start * MsPerSec,
   periodEndTs |-> line.end * MsPerSec - 1]

ValidLine(line) ==
  /\ line.start * MsPerSec > 0
  /\ line.end * MsPerSec - 1 > 0
  /\ Trim(line.id) # ""

MergeLine(items, inv, line) ==
  IF ValidLine(line)
    THEN Put(items, KeyOf(inv.id, Trim(line.id)), SyncedItem(inv, line))
    ELSE items

RECURSIVE MergeLines(_, _, _)
MergeLines(items, inv, lines) ==
  IF lines = <<>> THEN items
  ELSE MergeLines(MergeLine(items, inv, Head(lines)), inv, Tail(lines))

RECURSIVE MergeBatch(_, _)
MergeBatch(items, invoices) ==
  IF invoices = <<>> THEN items
  ELSE MergeBatch(MergeLines(items, Head(invoices), Head(invoices).lines),
                  Tail(invoices))

----------------------------------------------------------------------------
(* ensureStripeSyncForRange, cursor-based store *)

sameActiveRange(store, clampedStartTs, endTs) ==
  store.activeRangeStartTs = clampedStartTs /\ store.activeRangeEndTs = endTs

(* A reset that forgets to clear the cursor *)
AdoptRangeKeepingCursor(store, clampedStartTs, endTs) ==
  IF sameActiveRange(store, clampedStartTs, endTs) THEN store
  ELSE [store EXCEPT !.activeRangeStartTs = clampedStartTs,
                     !.activeRangeEndTs = endTs,
                     !.rangeExhausted = FALSE]

AdoptRange(store, clampedStartTs, endTs) ==
  IF sameActiveRange(store, clampedStartTs, endTs) THEN store
  ELSE [store EXCEPT !.activeRangeStartTs = clampedStartTs,
                     !.activeRangeEndTs = endTs,
                     !.nextInvoiceCursor = NoCursor,
                     !.rangeExhausted = FALSE]

coversRequestedRange(nextStore, clampedStartTs, endTs) ==
  /\ nextStore.rangeExhausted
  /\ nextStore.activeRangeStartTs > 0
  /\ nextStore.activeRangeEndTs > 0
  /\ nextStore.activeRangeStartTs <= clampedStartTs
  /\ nextStore.activeRangeEndTs >= endTs

isFresh(nextStore, force, t) ==
  ~force /\ t - nextStore.updatedAtTs <= SYNC_FRESHNESS_MS

BatchQuery(nextStore, maxInvoices) ==
  [createdGte |-> nextStore.activeRangeStartTs \div MsPerSec,
   createdLte |-> nextStore.activeRangeEndTs \div MsPerSec,
   maxInvoices |-> maxInvoices,
   startingAfter |-> nextStore.nextInvoiceCursor]

ExtendWatermark(nextStore) ==
  IF nextStore.rangeExhausted
    THEN [nextStore EXCEPT
            !.lastSyncStartTs =
               IF nextStore.lastSyncStartTs > 0
                 THEN Min(nextStore.lastSyncStartTs, nextStore.activeRangeStartTs)
                 ELSE nextStore.activeRangeStartTs,
            !.lastSyncEndTs = Max(nextStore.lastSyncEndTs, nextStore.activeRangeEndTs)]
    ELSE nextStore

(* A refresh that forgets to advance the cursor *)
AfterBatchKeepingCursor(nextStore, batch, t) ==
  ExtendWatermark(
    [nextStore EXCEPT
       !.updatedAtTs = t,
       !.itemsByKey = MergeBatch(nextStore.itemsByKey, batch.invoicesWithLines),
       !.rangeExhausted = ~batch.hasMore])

AfterBatch(nextStore, batch, t) ==
  ExtendWatermark(
    [nextStore EXCEPT
       !.updatedAtTs = t,
       !.itemsByKey = MergeBatch(nextStore.itemsByKey, batch.invoicesWithLines),
       !.nextInvoiceCursor = IF batch.hasMore THEN batch.nextStartingAfter ELSE NoCursor,
       !.rangeExhausted = ~batch.hasMore])

----------------------------------------------------------------------------
(* Callers of ensureStripeSyncForRange *)

(* ledgerCalls: the listInvoiceBatchWithLineItems requests the call made *)
NoResult ==
  [status |-> "none", synced |-> FALSE, reason |-> "", syncedInvoices |-> 0,
   hasMore |-> "absent", ledgerCalls |-> 0]
Invalid(message) == [NoResult EXCEPT !.status = "rejected", !.reason = message]
Failed(message) == [NoResult EXCEPT !.status = "rejected", !.reason = message]
Rejected(message) ==
  [NoResult EXCEPT !.status = "rejected", !.reason = message, !.ledgerCalls = 1]
Skipped(reason) == [NoResult EXCEPT !.status = "ok", !.reason = reason]
Refreshed(batch) ==
  [status |-> "ok", synced |-> TRUE, reason |-> "refreshed",
   syncedInvoices |-> batch.fetchedInvoices,
   hasMore |-> IF batch.hasMore THEN "true" ELSE "false",
   ledgerCalls |-> 1]

NoBatch == [hasMore |-> FALSE, fetchedInvoices |-> 0]

IdleCall(result) ==
  [pc |-> "idle", startDate |-> 0, endDate |-> 0, force |-> FALSE,
   clampedStartTs |-> 0, endTs |-> 0, nextStore |-> emptyStore,
   batch |-> NoBatch, result |-> result]

Callers == DOMAIN call

----------------------------------------------------------------------------
(* The caller of a read-only query *)
NoAnswer == [status |-> "none"]
IdleReader(answer) == [pc |-> "idle", kind |-> "", startTs |-> 0, endTs |-> 0, answer |-> answer]

(* The caller of generateStripeReport; served and covered observe where   *)
(* the answer came from and whether the snapshot read covered the range    *)
IdleReport(answer, served) ==
  [pc |-> "idle", startDate |-> 0, endDate |-> 0, grain |-> "", madeAt |-> 0,
   answer |-> answer, served |-> served, covered |-> FALSE]

NoEntries == [k \in {} |-> 0]

----------------------------------------------------------------------------
(* Observers (history variables; they read the program and never steer it) *)

NoHist ==
  [obs |-> "none", watch |-> <<0, 0>>, done |-> FALSE,
   active |-> FALSE, ended |-> FALSE, expected |-> NoItems,
   ever |-> {}, again |-> {}, seen |-> {}, againSame |-> {},
   merged |-> {}, waited |-> FALSE, persisted |-> emptyStore, readOk |-> TRUE,
   last |-> NoItems]

ValidRanges == { r \in (1..MaxDay) \X (1..MaxDay) : r[1] <= r[2] }

Input(startDate, endDate, force) ==
  [startDate |-> startDate, endDate |-> endDate, force |-> force]

Watching(in) == <<in.startDate, in.endDate>> = hist.watch /\ ~in.force

(* What one refresh whose single batch holds the whole range would persist *)
SingleBatchItems(store, clampedStartTs, endTs) ==
  LET nextStore == AdoptRange(store, clampedStartTs, endTs)
      batch == listInvoiceBatchWithLineItems(ledger, BatchQuery(nextStore, Len(ledger) + 1))
  IN AfterBatch(nextStore, batch, now).itemsByKey

InvoiceIds(batch) ==
  { batch.invoicesWithLines[i].id : i \in 1..Len(batch.invoicesWithLines) }

(* "range": the last calls were unforced calls for the watched dates, and   *)
(* one of them completed a refresh that left the range exhausted (done).    *)
(* "runs": a run of consecutive unforced calls for the watched dates, from  *)
(* its first call (active) to the call that reports hasMore = false (ended);*)
(* expected is what a single-batch refresh would have persisted.            *)
Forget(h) ==
  [h EXCEPT !.done = FALSE, !.active = FALSE, !.ended = FALSE, !.expected = NoItems]

ObserveRun(h, in, store, clampedStartTs, endTs) ==
  IF h.obs \notin {"range", "runs"} THEN h
  ELSE IF ~Watching(in) THEN Forget(h)
  ELSE IF h.obs = "range" \/ h.active THEN h
  ELSE [h EXCEPT !.active = TRUE, !.ended = FALSE,
                 !.expected = SingleBatchItems(store, clampedStartTs, endTs)]

ObserveFail(h) == IF h.obs \in {"range", "runs"} THEN Forget(h) ELSE h

(* "fetch": the invoices fetched and merged so far (ever), those fetched    *)
(* since the stored range was last changed (seen), and the ones among them  *)
(* that were fetched once more (again, againSame)                           *)
ObserveFetch(h, same, batch) ==
  IF h.obs # "fetch" THEN h
  ELSE [h EXCEPT !.ever = @ \cup InvoiceIds(batch),
                 !.again = @ \cup (InvoiceIds(batch) \cap h.ever),
                 !.seen = IF same THEN @ \cup InvoiceIds(batch) ELSE InvoiceIds(batch),
                 !.againSame = IF same THEN @ \cup (InvoiceIds(batch) \cap h.seen) ELSE @]

(* "lock": the keys of the snapshots written (merged) and the last         *)
(* snapshot whose write completed (persisted)                               *)
ObserveWrite(h, in, written, hasMore) ==
  CASE h.obs = "range" /\ Watching(in) /\ written.rangeExhausted ->
         [h EXCEPT !.done = TRUE]
    [] h.obs = "runs" /\ Watching(in) /\ ~hasMore ->
         [h EXCEPT !.active = FALSE, !.ended = TRUE]
    [] h.obs = "lock" ->
         [h EXCEPT !.merged = @ \cup DOMAIN written.itemsByKey,
                   !.persisted = written]
    [] OTHER -> h

----------------------------------------------------------------------------
(* ensureStripeSyncForRange as one step: a single caller, nobody queued *)

Return(p, result) == call' = [call EXCEPT ![p] = IdleCall(result)]

(* lines 493-555: the ledger request of nextStore, the merge, the write.   *)
(* The request fails, or the write fails (the local file truncated or      *)
(* untouched), or the snapshot is written.                                 *)
Refresh(p, in, same, nextStore, seenRun) ==
  \E batch \in {listInvoiceBatchWithLineItems(ledger, BatchQuery(nextStore, env.maxInvoices))} :
  \E seenFetch \in {ObserveFetch(seenRun, same, batch)} :
    \/ /\ Return(p, Rejected("Stripe API error"))
       /\ hist' = ObserveFail(seenRun)
       /\ UNCHANGED <<now, disk>>
    \/ /\ Return(p, Rejected("write failed"))
       /\ hist' = ObserveFail(seenRun)
       /\ disk' \in {disk} \cup (IF env.kv THEN {} ELSE {Corrupt})
       /\ UNCHANGED now
    \/ \E dt \in 0..1 :
         /\ now + dt <= StartNow + MaxTicks
         /\ now' = now + dt
         /\ \E written \in {AfterBatch(nextStore, batch, now + dt)} :
              /\ disk' = Doc(written)
              /\ hist' = ObserveWrite(seenFetch, in, written, batch.hasMore)
         /\ Return(p, Refreshed(batch))

(* lines 451-491 *)
EnsureBody(p, startDate, endDate, force) ==
  /\ call[p].pc = "idle"
  /\ chain = <<>>
  /\ UNCHANGED <<env, ledger, chain>>
  /\ \E range \in {parseRange(startDate, endDate)} :
       IF range.error # ""
         THEN /\ Return(p, Invalid(range.error))
              /\ UNCHANGED <<now, disk, hist>>
       ELSE
       \E in \in {Input(startDate, endDate, force)} :
       \E clampedStartTs \in {clampHistoryStartTs(range.startTs, now)} :
       \E store \in {readStore} :
       \E nextStore \in {AdoptRange(store, clampedStartTs, range.endTs)} :
       \E seenRun \in {ObserveRun(hist, in, store, clampedStartTs, range.endTs)} :
         IF ~force /\ coversRequestedRange(nextStore, clampedStartTs, range.endTs)
           THEN /\ Return(p, Skipped("range-covered"))
                /\ hist' = seenRun
                /\ UNCHANGED <<now, disk>>
         ELSE IF isFresh(nextStore, force, now) /\ nextStore.rangeExhausted
           THEN /\ Return(p, Skipped("fresh-cache"))
                /\ hist' = seenRun
                /\ UNCHANGED <<now, disk>>
         ELSE Refresh(p, in, sameActiveRange(store, clampedStartTs, range.endTs),
                      nextStore, seenRun)

EnsureSync(p, startDate, endDate, force) ==
  /\ EnsureBody(p, startDate, endDate, force)
  /\ UNCHANGED others

Tick ==
  /\ now < StartNow + MaxTicks
  /\ now' = now + 1
  /\ UNCHANGED <<env, ledger, disk, chain, call, hist, others>>

----------------------------------------------------------------------------
(* ensureStripeSyncForRange step by step, callers chained on writeLock *)

(* A chain on which fn runs without waiting for the earlier links *)
MayEnterAtOnce(p, ch) == \E i \in 1..Len(ch) : ch[i] = p

(* lines 415-419: writeLock.then(fn, fn) runs fn when every link chained   *)
(* before it has settled; the new writeLock settles when fn's promise does *)
MayEnter(p, ch) == ch # <<>> /\ Head(ch) = p
Settle(p, ch) == SelectSeq(ch, LAMBDA q : q # p)

(* between its readStore and the end of its writeStore *)
InCritical(p) == call[p].pc \in {"fetching", "writing", "flushing"}

(* "call": the snapshot as it is when a call is made *)
ObserveCall(h) == IF h.obs = "call" THEN [h EXCEPT !.persisted = readStore] ELSE h

(* lines 452-455: the range is parsed and clamped, then fn is chained *)
EnsureCall(p, startDate, endDate, force) ==
  /\ call[p].pc = "idle"
  /\ \E range \in {parseRange(startDate, endDate)} :
       IF range.error # ""
         THEN /\ Return(p, Invalid(range.error))
              /\ hist' = ObserveCall(hist)
              /\ UNCHANGED chain
         ELSE /\ call' = [call EXCEPT ![p] =
                   [IdleCall(NoResult) EXCEPT
                      !.pc = "queued",
                      !.startDate = startDate, !.endDate = endDate, !.force = force,
                      !.clampedStartTs = clampHistoryStartTs(range.startTs, now),
                      !.endTs = range.endTs]]
              /\ chain' = Append(chain, p)
              /\ hist' = IF hist.obs = "lock" /\ chain # <<>>
                           THEN [hist EXCEPT !.waited = TRUE]
                           ELSE ObserveCall(hist)
  /\ UNCHANGED <<now, env, ledger, disk, others>>

Settled(p, result) ==
  /\ Return(p, result)
  /\ chain' = Settle(p, chain)

(* lines 456-498: fn runs once every earlier link of the chain has settled *)
EnsureRun(p) ==
  /\ call[p].pc = "queued"
  /\ MayEnter(p, chain)
  /\ \E nextStore \in {AdoptRange(readStore, call[p].clampedStartTs, call[p].endTs)} :
       IF ~call[p].force /\ coversRequestedRange(nextStore, call[p].clampedStartTs, call[p].endTs)
         THEN Settled(p, Skipped("range-covered"))
       ELSE IF isFresh(nextStore, call[p].force, now) /\ nextStore.rangeExhausted
         THEN Settled(p, Skipped("fresh-cache"))
       ELSE /\ call' = [call EXCEPT ![p].pc = "fetching", ![p].nextStore = nextStore]
            /\ UNCHANGED chain
  /\ UNCHANGED <<now, env, ledger, disk, hist, others>>

(* line 456 on the key-value backend: the GET request fails and fn throws *)
EnsureRunFail(p) ==
  /\ call[p].pc = "queued"
  /\ MayEnter(p, chain)
  /\ env.kv
  /\ Settled(p, Failed("KV command failed"))
  /\ UNCHANGED <<now, env, ledger, disk, hist, others>>

(* lines 493-544 *)
FetchReturn(p) ==
  /\ call[p].pc = "fetching"
  /\ \E batch \in {listInvoiceBatchWithLineItems(ledger, BatchQuery(call[p].nextStore, env.maxInvoices))} :
       call' = [call EXCEPT ![p].pc = "writing",
                            ![p].nextStore = AfterBatch(call[p].nextStore, batch, now),
                            ![p].batch = [hasMore |-> batch.hasMore,
                                          fetchedInvoices |-> batch.fetchedInvoices]]
  /\ UNCHANGED <<now, env, ledger, disk, chain, hist, others>>

FetchFail(p) ==
  /\ call[p].pc = "fetching"
  /\ Settled(p, Rejected("Stripe API error"))
  /\ UNCHANGED <<now, env, ledger, disk, hist, others>>

(* lines 394-397: fs.writeFile truncates the file, then writes the text *)
WriteTruncate(p) ==
  /\ call[p].pc = "writing"
  /\ ~env.kv
  /\ disk' = Corrupt
  /\ call' = [call EXCEPT ![p].pc = "flushing"]
  /\ UNCHANGED <<now, env, ledger, chain, hist, others>>

(* lines 407-413, 546-555 *)
WriteDone(p) ==
  /\ call[p].pc = IF env.kv THEN "writing" ELSE "flushing"
  /\ disk' = Doc(call[p].nextStore)
  /\ hist' = ObserveWrite(hist, Input(call[p].startDate, call[p].endDate, call[p].force),
                          call[p].nextStore, call[p].batch.hasMore)
  /\ Settled(p, [Refreshed(call[p].batch) EXCEPT !.syncedInvoices = call[p].batch.fetchedInvoices])
  /\ UNCHANGED <<now, env, ledger, others>>

(* the write fails: a file already truncated stays so and the snapshot is lost *)
WriteFail(p) ==
  /\ call[p].pc \in {"writing", "flushing"}
  /\ Settled(p, Rejected("write failed"))
  /\ hist' = IF hist.obs = "lock" /\ call[p].pc = "flushing"
               THEN [hist EXCEPT !.merged = {}, !.persisted = emptyStore]
               ELSE hist
  /\ UNCHANGED <<now, env, ledger, disk, others>>

----------------------------------------------------------------------------
(* The read-only queries (lines 559-586): readStore outside the chain *)

ItemKeys(store, startTs, endTs) ==
  { k \in DOMAIN store.itemsByKey :
      overlaps(store.itemsByKey[k].periodStartTs, store.itemsByKey[k].periodEndTs,
               startTs, endTs) }

getSyncedStripeLineItemsForRange(store, startTs, endTs) ==
  [status |-> "ok", kind |-> "items", keys |-> ItemKeys(store, startTs, endTs)]

getStripeSyncStoreStats(store) ==
  [status |-> "ok", kind |-> "stats",
   storage |-> IF env.kv THEN "vercel_kv" ELSE "local_tmp",
   updatedAtTs |-> store.updatedAtTs,
   lastSyncStartTs |-> store.lastSyncStartTs,
   lastSyncEndTs |-> store.lastSyncEndTs,
   activeRangeStartTs |-> store.activeRangeStartTs,
   activeRangeEndTs |-> store.activeRangeEndTs,
   nextInvoiceCursor |-> store.nextInvoiceCursor,
   rangeExhausted |-> store.rangeExhausted,
   itemCount |-> Cardinality(DOMAIN store.itemsByKey)]

ReadCall(kind, startDate, endDate) ==
  /\ reader.pc = "idle"
  /\ \E range \in {parseRange(startDate, endDate)} :
       reader' = IF kind = "items" /\ range.error # ""
                   THEN IdleReader([status |-> "rejected", kind |-> kind, reason |-> range.error])
                   ELSE [pc |-> "reading", kind |-> kind,
                         startTs |-> IF kind = "items" THEN range.startTs ELSE 0,
                         endTs |-> IF kind = "items" THEN range.endTs ELSE 0,
                         answer |-> NoAnswer]
  /\ UNCHANGED <<now, env, ledger, disk, chain, call, report, cache, pure, hist>>

(* line 561, 574 on the key-value backend: the GET request fails *)
ReadFail ==
  /\ reader.pc = "reading"
  /\ env.kv
  /\ reader' = IdleReader([status |-> "rejected", kind |-> reader.kind,
                           reason |-> "KV command failed"])
  /\ UNCHANGED <<now, env, ledger, disk, chain, call, report, cache, pure, hist>>

ReadReturn ==
  /\ reader.pc = "reading"
  /\ reader' = IdleReader(IF reader.kind = "items"
                            THEN getSyncedStripeLineItemsForRange(readStore, reader.startTs, reader.endTs)
                            ELSE getStripeSyncStoreStats(readStore))
  /\ hist' = IF hist.obs = "lock"
               THEN [hist EXCEPT !.readOk = @ /\ readStore = hist.persisted]
               ELSE hist
  /\ UNCHANGED <<now, env, ledger, disk, chain, call, report, cache, pure>>

----------------------------------------------------------------------------
(* generateStripeReport over the sync store (stripeReport.ts, lines 63-188) *)

autoSync == env.autoSync = "true"

(* lines 104-118: the items that yield a row *)
ReportRows(store, startTs, endTs) ==
  { k \in ItemKeys(store, startTs, endTs) : store.itemsByKey[k].amountMinor > 0 }

(* An entry that has expired when it is stored *)
cacheExpiresAtOnce(t) == t

(* line 186 *)
cacheExpiresAt(t) == t + REPORT_CACHE_TTL_MS

(* line 76 *)
cacheKey(startDate, endDate, grain) == <<startDate, endDate, grain>>

(* "cache": per cache key, the last call that computed a report: when it  *)
(* was made and what it returned                                          *)
ObserveReport(h, key, madeAt, answer) ==
  IF h.obs = "cache"
    THEN [h EXCEPT !.last = Put(h.last, key, [madeAt |-> madeAt, answer |-> answer])]
    ELSE h

(* lines 102-187: the rows are computed, cached and returned *)
Computed(store, startDate, endDate, grain, range, madeAt) ==
  \E answer \in {[status |-> "ok", grain |-> grain,
                  rows |-> ReportRows(store, range.startTs, range.endTs)]} :
    /\ cache' = Put(cache, cacheKey(startDate, endDate, grain),
                    [expiresAt |-> cacheExpiresAt(now), value |-> answer])
    /\ report' = [IdleReport(answer, "computed") EXCEPT
                    !.covered = coversRequestedRange(store,
                                  clampHistoryStartTs(range.startTs, now), range.endTs)]
    /\ hist' = ObserveReport(hist, cacheKey(startDate, endDate, grain), madeAt, answer)

(* lines 64-100, up to the call of ensureStripeSyncForRange *)
GenerateCall(startDate, endDate, grain) ==
  /\ report.pc = "idle"
  /\ \E range \in {parseRange(startDate, endDate)} :
     \E key \in {cacheKey(startDate, endDate, grain)} :
       IF range.error # ""
         THEN /\ report' = IdleReport([status |-> "rejected", reason |-> range.error], "")
              /\ UNCHANGED <<cache, hist>>
       ELSE IF key \in DOMAIN cache /\ cache[key].expiresAt > now
         THEN /\ report' = IdleReport(cache[key].value, "cache")
              /\ UNCHANGED <<cache, hist>>
       ELSE IF ItemKeys(readStore, range.startTs, range.endTs) = {} /\ autoSync
         THEN /\ report' = [IdleReport(NoAnswer, "") EXCEPT
                              !.pc = "syncing", !.startDate = startDate,
                              !.endDate = endDate, !.grain = grain, !.madeAt = now]
              /\ UNCHANGED <<cache, hist>>
       ELSE Computed(readStore, startDate, endDate, grain, range, now)
  /\ UNCHANGED <<now, env, ledger, disk, chain, call, reader, pure>>

(* lines 95-98: one call of ensureStripeSyncForRange, force unset *)
GenerateSync ==
  /\ report.pc = "syncing"
  /\ EnsureBody(1, report.startDate, report.endDate, FALSE)
  /\ report' = IF call'[1].result.status = "rejected"
                 THEN IdleReport([status |-> "rejected", reason |-> call'[1].result.reason], "")
                 ELSE [report EXCEPT !.pc = "synced"]
  /\ UNCHANGED <<reader, cache, pure>>

(* lines 99-187: the items are read again *)
GenerateFinish ==
  /\ report.pc = "synced"
  /\ Computed(readStore, report.startDate, report.endDate, report.grain,
              parseRange(report.startDate, report.endDate), report.madeAt)
  /\ UNCHANGED <<now, env, ledger, disk, chain, call, reader, pure>>

----------------------------------------------------------------------------
(* Specifications of the sequential store: one caller, the clock running *)

NoPure == [stage |-> "none"]

InitBase(envs, hists, callers) ==
  /\ now = StartNow
  /\ env \in envs
  /\ ledger \in Ledgers
  /\ disk = Absent
  /\ chain = <<>>
  /\ call = [p \in 1..callers |-> IdleCall(NoResult)]
  /\ reader = IdleReader(NoAnswer)
  /\ report = IdleReport(NoAnswer, "")
  /\ cache = NoEntries
  /\ hist \in hists

InitWith(envs, hists) == InitBase(envs, hists, 1) /\ pure = NoPure

LocalEnvs == [kv : {FALSE}, maxInvoices : 1..MaxBatch, autoSync : {"unset"}]

Init == InitWith(LocalEnvs, {NoHist})

Next ==
  \/ \E s \in Dates, e \in Dates, f \in BOOLEAN : EnsureSync(1, s, e, f)
  \/ Tick

Spec == Init /\ [][Next]_vars

(* ... observed for one pair of dates *)
InitRange ==
  InitWith(LocalEnvs, { [NoHist EXCEPT !.obs = "range", !.watch = r] : r \in ValidRanges })
SpecRange == InitRange /\ [][Next]_vars

InitRuns ==
  InitWith(LocalEnvs, { [NoHist EXCEPT !.obs = "runs", !.watch = r] : r \in ValidRanges })
SpecRuns == InitRuns /\ [][Next]_vars

(* ... with force never set *)
InitUnforced == InitWith(LocalEnvs, { [NoHist EXCEPT !.obs = "fetch"] })
NextUnforced ==
  \/ \E s \in Dates, e \in Dates : EnsureSync(1, s, e, FALSE)
  \/ Tick
SpecUnforced == InitUnforced /\ [][NextUnforced]_vars

----------------------------------------------------------------------------
(* Concurrent callers and a reader, on either backend, the clock at rest *)

LockDates == {1, MaxDay}

InitLock ==
  /\ InitBase([kv : BOOLEAN, maxInvoices : {MaxBatch}, autoSync : {"unset"}],
              {[NoHist EXCEPT !.obs = "lock"]}, MaxCallers)
  /\ pure = NoPure

NextLock ==
  \/ \E p \in Callers, s \in LockDates, e \in LockDates : EnsureCall(p, s, e, FALSE)
  \/ \E p \in Callers : EnsureRun(p)
  \/ \E p \in Callers : EnsureRunFail(p)
  \/ \E p \in Callers : FetchReturn(p)
  \/ \E p \in Callers : FetchFail(p)
  \/ \E p \in Callers : WriteTruncate(p)
  \/ \E p \in Callers : WriteDone(p)
  \/ \E p \in Callers : WriteFail(p)
  \/ \E s \in LockDates, e \in LockDates : ReadCall("items", s, e)
  \/ ReadCall("stats", 0, 0)
  \/ ReadReturn
  \/ ReadFail

SpecLock == InitLock /\ [][NextLock]_vars

AllSettled == chain = <<>> /\ \A p \in Callers : call[p].pc = "idle"

(* C4: at most one call is between its readStore and its writeStore; when  *)
(* all concurrent calls have completed, the snapshot holds the items of    *)
(* every snapshot a call has written (none lost to a truncated write).     *)
C4_OneWriterNoLostUpdate ==
  /\ Cardinality({ p \in Callers : InCritical(p) }) <= 1
  /\ AllSettled => hist.merged \subseteq DOMAIN readStore.itemsByKey

(* two calls, the second chained while the first was pending, have both    *)
(* refreshed and their items are all there                                 *)
C4_Witness ==
  /\ hist.obs = "lock"
  /\ hist.waited
  /\ AllSettled
  /\ \A p \in Callers : call[p].result.synced /\ call[p].result.syncedInvoices >= 1
  /\ Cardinality(hist.merged) >= 3

(* C5: a read-only query started while a refresh holds the lock or callers *)
(* are queued completes without waiting for them, and it returns the last  *)
(* persisted snapshot.                                                     *)
C5_ReadsNeverWaitAndSeePersisted ==
  /\ reader.pc = "reading" => ENABLED ReadReturn
  /\ hist.readOk

----------------------------------------------------------------------------
(* Reports and syncs of one process, STRIPE_REPORT_AUTO_SYNC set or not *)


InitReport ==
  InitWith([kv : {FALSE}, maxInvoices : 1..MaxBatch, autoSync : {"unset", "true", "false"}],
           {NoHist})

NextReport ==
  \/ \E s \in {0, 1}, e \in {0, MaxDay} : GenerateCall(s, e, "monthly")
  \/ GenerateSync
  \/ GenerateFinish
  \/ \E s \in LockDates, e \in LockDates : EnsureSync(1, s, e, FALSE)
  \/ Tick

SpecReport == InitReport /\ [][NextReport]_vars

(* C10: a report computed for range R (not served from the response cache) *)
(* is computed from a snapshot whose exhausted range covers R.             *)
C10_ReportComesFromCoveredSnapshot ==
  (report.pc = "idle" /\ report.served = "computed") => report.covered

(* C14: with STRIPE_REPORT_AUTO_SYNC unset, a report call that is not     *)
(* answered from the cache and finds no overlapping item in the snapshot  *)
(* calls ensureStripeSyncForRange before it computes its rows.            *)
C14_UnsetAutoSyncSyncsFirst ==
  [][\A s \in {0, 1}, e \in {0, MaxDay} :
       (/\ GenerateCall(s, e, "monthly")
        /\ env.autoSync = "unset"
        /\ parseRange(s, e).error = ""
        /\ ~(cacheKey(s, e, "monthly") \in DOMAIN cache
               /\ cache[cacheKey(s, e, "monthly")].expiresAt > now)
        /\ ItemKeys(readStore, parseRange(s, e).startTs, parseRange(s, e).endTs) = {})
         => report'.pc = "syncing"]_vars

----------------------------------------------------------------------------
(* Repeated reports with auto-sync on, observed per cache key *)

Grains == {"monthly", "daily"}

InitCache ==
  InitWith([kv : {FALSE}, maxInvoices : {1}, autoSync : {"true"}],
           {[NoHist EXCEPT !.obs = "cache"]})

NextCache ==
  \/ \E g \in Grains : GenerateCall(1, MaxDay, g)
  \/ GenerateSync
  \/ GenerateFinish
  \/ EnsureSync(1, 1, MaxDay, FALSE)
  \/ Tick

SpecCache == InitCache /\ [][NextCache]_vars

(* C11: a report call with the key of an earlier call that computed a     *)
(* report and was made less than REPORT_CACHE_TTL_MS before returns that   *)
(* call's result, reads no snapshot and starts no sync; a call made at or  *)
(* after the entry's expiry is not answered from the cache, and the report *)
(* it computes replaces the entry.                                         *)
C11_CacheAnswersWithinTtl ==
  [][\A g \in Grains :
       LET key == cacheKey(1, MaxDay, g) IN
       /\ (GenerateCall(1, MaxDay, g) /\ key \in DOMAIN hist.last
             /\ now - hist.last[key].madeAt < REPORT_CACHE_TTL_MS)
            => /\ report'.pc = "idle"
               /\ report'.served = "cache"
               /\ report'.answer = hist.last[key].answer
               /\ UNCHANGED <<disk, call, cache>>
       /\ (GenerateCall(1, MaxDay, g) /\ key \in DOMAIN cache
             /\ now >= cache[key].expiresAt)
            => report'.served # "cache"
       /\ ((GenerateCall(1, MaxDay, g) \/ (GenerateFinish /\ report.grain = g))
             /\ report'.served = "computed")
            => /\ cache'[key].value = report'.answer
               /\ cache'[key].expiresAt = now + REPORT_CACHE_TTL_MS]_vars

(* a call answered from the cache with rows, after the snapshot has grown *)
C11_Witness ==
  /\ hist.obs = "cache"
  /\ report.served = "cache"
  /\ report.answer.rows # {}
  /\ ReportRows(readStore, startOfDayTs(1), endOfDayTs(MaxDay)) # report.answer.rows

----------------------------------------------------------------------------
(* The /api/stripe-sync handler (app/api/stripe-sync/route.ts, 71-155)     *)

(* toISOString().slice(0, 10) of a time *)
DayOf(t) == t \div DayMs

(* lines 91-99 *)
defaultWindow(t) ==
  [startDate |-> DayOf(t - STRIPE_SYNC_DEFAULT_LOOKBACK_DAYS * DayMs),
   endDate |-> DayOf(t)]

(* a request without a body, or without some of the body's fields: an     *)
(* absent date is BadDate and absent iterations are 0 (both are falsy)    *)
NoBody == [present |-> FALSE, startDate |-> BadDate, endDate |-> BadDate,
           force |-> FALSE, iterations |-> 0]
Bodies ==
  {NoBody} \cup
  [present : {TRUE}, startDate : {BadDate, 1}, endDate : {BadDate, MaxDay},
   force : BOOLEAN, iterations : {-1, 0, 2, MAX_ITERATIONS + 5}]

(* line 116: Math.max(1, Math.min(Number(body.iterations || 1), 20)) *)
iterationsOf(body) ==
  Max(1, Min(IF body.iterations = 0 THEN 1 ELSE body.iterations, MAX_ITERATIONS))

(* lines 101-116 *)
HandleCall(body) ==
  /\ pure.stage \in {"none", "responded", "failed"}
  /\ pure' = [stage |-> "route", body |-> body,
              startDate |-> IF body.startDate # BadDate THEN body.startDate
                            ELSE defaultWindow(now).startDate,
              endDate |-> IF body.endDate # BadDate THEN body.endDate
                          ELSE defaultWindow(now).endDate,
              iterations |-> iterationsOf(body),
              i |-> 0, forced |-> 0, lastRun |-> NoResult, stopped |-> FALSE]
  /\ UNCHANGED <<now, env, ledger, disk, chain, call, reader, report, cache, hist>>

(* lines 120-132: one turn of the loop; a run that throws ends the request *)
HandleRun ==
  /\ pure.stage = "route"
  /\ pure.i < pure.iterations
  /\ ~pure.stopped
  /\ \E force \in {IF pure.i = 0 THEN pure.body.force ELSE FALSE} :
       /\ EnsureBody(1, pure.startDate, pure.endDate, force)
       /\ pure' = IF call'[1].result.status = "rejected"
                    THEN [pure EXCEPT !.stage = "failed", !.lastRun = call'[1].result]
                    ELSE [pure EXCEPT !.i = @ + 1,
                                      !.forced = @ + (IF force THEN 1 ELSE 0),
                                      !.lastRun = call'[1].result,
                                      !.stopped = call'[1].result.hasMore = "false"]
  /\ UNCHANGED <<reader, report, cache>>

(* lines 134-147: iterationsExecuted is runs.length *)
HandleReturn ==
  /\ pure.stage = "route"
  /\ pure.i >= pure.iterations \/ pure.stopped
  /\ pure' = [pure EXCEPT !.stage = "responded"]
  /\ UNCHANGED <<now, env, ledger, disk, chain, call, reader, report, cache, hist>>

InitRoute ==
  /\ InitBase([kv : {FALSE}, maxInvoices : 1..MaxBatch, autoSync : {"unset"}], {NoHist}, 1)
  /\ pure = NoPure

NextRoute ==
  \/ \E body \in Bodies : HandleCall(body)
  \/ HandleRun
  \/ HandleReturn
  \/ Tick

SpecRoute == InitRoute /\ [][NextRoute]_vars

(* C15: a request without a body that has answered has made               *)
(* STRIPE_SYNC_CRON_ITERATIONS runs of the default lookback window, or     *)
(* its last run did not report that more invoices remain.                  *)
C15_NoBodyRunsUntilExhausted ==
  (pure.stage = "responded" /\ ~pure.body.present) =>
    \/ pure.i >= STRIPE_SYNC_CRON_ITERATIONS
    \/ pure.lastRun.hasMore # "true"

----------------------------------------------------------------------------
(* readStore on its own: a backend, what it holds and how the request ends *)

(* documents parseStore refuses: another version, no itemsByKey *)
OtherVersion == Doc([emptyStore EXCEPT !.version = 2])
NoItemsByKey == [kind |-> "no-items", doc |-> emptyStore]

StoredDocs ==
  {Absent, Corrupt, OtherVersion, NoItemsByKey, Doc(emptyStore)}
    \cup { Doc(AfterBatch(AdoptRange(emptyStore, startOfDayTs(r[1]), endOfDayTs(r[2])),
                          listInvoiceBatchWithLineItems(l,
                            BatchQuery(AdoptRange(emptyStore, startOfDayTs(r[1]), endOfDayTs(r[2])), n)),
                          StartNow)) : r \in ValidRanges, n \in 1..MaxBatch, l \in Ledgers }

InitRead ==
  /\ InitBase(LocalEnvs, {NoHist}, 1)
  /\ pure \in { [stage |-> "stored", kv |-> kv, outcome |-> o, raw |-> raw] :
                  kv \in BOOLEAN, o \in KvOutcomes \cup FsOutcomes, raw \in StoredDocs }
  /\ pure.outcome \in IF pure.kv THEN KvOutcomes ELSE FsOutcomes

ReadStore ==
  /\ pure.stage = "stored"
  /\ pure' = [stage |-> "read", kv |-> pure.kv, outcome |-> pure.outcome, raw |-> pure.raw,
              answer |-> readStoreFrom(pure.kv, pure.outcome, pure.raw)]
  /\ UNCHANGED <<now, env, ledger, disk, chain, call, reader, report, cache, hist>>

SpecRead == InitRead /\ [][ReadStore]_vars

(* C13: readStore returns a snapshot for every backend state and never     *)
(* fails; a missing or unparseable document, another version, an absent    *)
(* itemsByKey, and a failed key-value request yield the empty snapshot.    *)
C13_ReadStoreIsTotal ==
  pure.stage = "read" =>
    /\ pure.answer.status = "ok"
    /\ (pure.outcome # "ok" \/ pure.raw.kind # "doc" \/ pure.raw.doc.version # 1)
         => pure.answer.store = emptyStore

----------------------------------------------------------------------------
(* The merge loop on its own (lines 501-533): a snapshot's itemsByKey and a *)
(* fetched batch are drawn, and the loop is applied to them.                *)

(* in_b fetched again with another amount; in_a with one line id twice *)
InvB2 == [InvB EXCEPT !.lines = <<Line("li_1", FirstSec(2), FirstSec(3), 250)>>]
InvA2 == [InvA EXCEPT !.lines = <<Line("li_2", FirstSec(1), FirstSec(4), 100),
                                   Line("li_2", FirstSec(1), FirstSec(2), 150)>>]
Fetched == {InvA, InvB, InvC, InvB2, InvA2}

Batches(n) == UNION { [1..k -> Fetched] : k \in 0..n }

InitMerge ==
  /\ InitBase(LocalEnvs, {NoHist}, 1)
  /\ pure \in { [stage |-> "drawn",
                items |-> MergeBatch(NoItems, prior),
                batch |-> batch] : prior \in Batches(1), batch \in Batches(MaxBatch) }

MergeItem(inv, line) ==
  /\ pure.stage = "drawn"
  /\ pure' = [stage |-> "item",
              items |-> pure.items,
              valid |-> ValidLine(line),
              key |-> KeyOf(inv.id, Trim(line.id)),
              fetched |-> SyncedItem(inv, line),
              out |-> MergeLine(pure.items, inv, line)]
  /\ UNCHANGED <<now, env, ledger, disk, chain, call, reader, report, cache, hist>>

MergeOnce ==
  /\ pure.stage = "drawn"
  /\ pure' = [stage |-> "once",
              items |-> pure.items,
              batch |-> pure.batch,
              out |-> MergeBatch(pure.items, pure.batch)]
  /\ UNCHANGED <<now, env, ledger, disk, chain, call, reader, report, cache, hist>>

MergeAgain ==
  /\ pure.stage = "once"
  /\ pure' = [stage |-> "twice",
              items |-> pure.items,
              batch |-> pure.batch,
              once |-> pure.out,
              out |-> MergeBatch(pure.out, pure.batch)]
  /\ UNCHANGED <<now, env, ledger, disk, chain, call, reader, report, cache, hist>>

NextMerge ==
  \/ \E inv \in Fetched : \E i \in 1..Len(inv.lines) : MergeItem(inv, inv.lines[i])
  \/ MergeOnce
  \/ MergeAgain

SpecMerge == InitMerge /\ [][NextMerge]_vars

(* C9: merging a line item whose key is already in itemsByKey leaves the   *)
(* number of keys unchanged and stores the newly fetched value under the   *)
(* key; merging the same batch twice yields what merging it once yields.   *)
C9_MergeIsIdempotentUpsert ==
  /\ (pure.stage = "item" /\ pure.valid /\ pure.key \in DOMAIN pure.items) =>
       /\ Cardinality(DOMAIN pure.out) = Cardinality(DOMAIN pure.items)
       /\ pure.out[pure.key] = pure.fetched
  /\ pure.stage = "twice" => pure.out = pure.once

(* a stored item replaced by the same line fetched with another amount *)
C9_Witness ==
  /\ pure.stage = "item"
  /\ pure.valid
  /\ pure.key \in DOMAIN pure.items
  /\ pure.items[pure.key].amountMinor # pure.fetched.amountMinor
  /\ pure.out[pure.key].amountMinor = pure.fetched.amountMinor

----------------------------------------------------------------------------
(* Properties of the sequential store *)

(* The keys of the ledger's line items with a valid period and id whose    *)
(* invoice was created within [startTs, endTs]                             *)
LedgerItems(startTs, endTs) ==
  { KeyOf(ledger[i].id, Trim(ledger[i].lines[j].id)) :
      <<i, j>> \in { x \in (1..Len(ledger)) \X (1..2) :
                       /\ x[2] <= Len(ledger[x[1]].lines)
                       /\ ValidLine(ledger[x[1]].lines[x[2]])
                       /\ ledger[x[1]].created * MsPerSec >= startTs
                       /\ ledger[x[1]].created * MsPerSec <= endTs } }

(* C1: once a refresh for (startDate, endDate) has left the range          *)
(* exhausted, every later unforced call with the same dates, at any later  *)
(* time, returns synced=false, reason=range-covered and fetches nothing.   *)
C1_ExhaustedRangeStaysCovered ==
  [][(hist.done /\ EnsureSync(1, hist.watch[1], hist.watch[2], FALSE))
       => /\ call'[1].result.status = "ok"
          /\ ~call'[1].result.synced
          /\ call'[1].result.reason = "range-covered"
          /\ call'[1].result.ledgerCalls = 0]_vars

(* C2: in every persisted snapshot, rangeExhausted implies that every      *)
(* valid ledger line item whose invoice was created within the active      *)
(* range is in itemsByKey.                                                 *)
C2_ExhaustedRangeIsComplete ==
  readStore.rangeExhausted =>
    LedgerItems(readStore.activeRangeStartTs, readStore.activeRangeEndTs)
      \subseteq DOMAIN readStore.itemsByKey

(* an exhausted range of several invoices, paged one invoice at a time *)
C2_Witness ==
  /\ readStore.rangeExhausted
  /\ env.maxInvoices = 1
  /\ Cardinality(LedgerItems(readStore.activeRangeStartTs, readStore.activeRangeEndTs)) >= 3

(* C3: repeated unforced calls for one range, until a run reports          *)
(* hasMore=false, leave itemsByKey equal to that of one single-batch       *)
(* refresh of the range.                                                   *)
C3_ResumedRunsEqualSingleBatch ==
  hist.ended => readStore.itemsByKey = hist.expected

(* C6: the stored active range is exhausted and contains the requested     *)
(* clamped range, force unset: the call returns range-covered, fetches     *)
(* nothing and leaves the snapshot as it is.                               *)
Contains(store, startDate, endDate) ==
  LET range == parseRange(startDate, endDate)
  IN /\ range.error = ""
     /\ store.rangeExhausted
     /\ store.activeRangeStartTs > 0
     /\ store.activeRangeStartTs <= clampHistoryStartTs(range.startTs, now)
     /\ store.activeRangeEndTs >= range.endTs

C6_ContainedRangeIsCovered ==
  [][\A s \in Dates, e \in Dates :
       (Contains(readStore, s, e) /\ EnsureSync(1, s, e, FALSE))
         => /\ ~call'[1].result.synced
            /\ call'[1].result.reason = "range-covered"
            /\ call'[1].result.ledgerCalls = 0
            /\ disk' = disk]_vars

(* C7: in every persisted snapshot with a non-zero watermark, every valid  *)
(* ledger line item whose invoice was created within                       *)
(* [lastSyncStartTs, lastSyncEndTs] is in itemsByKey.                      *)
C7_WatermarkIsComplete ==
  readStore.lastSyncStartTs > 0 =>
    LedgerItems(readStore.lastSyncStartTs, readStore.lastSyncEndTs)
      \subseteq DOMAIN readStore.itemsByKey

----------------------------------------------------------------------------
(* The CRM report's calendar (lib/logic.ts).  A Date at local midnight is  *)
(* a day number; a year has 12 months and a month DaysPerMonth days.       *)

DaysPerMonth == 2

getFullYear(d) == (d \div DaysPerMonth) \div 12
getMonth(d) == (d \div DaysPerMonth) % 12
getDate(d) == (d % DaysPerMonth) + 1

(* new Date(y, mo, day): months and days out of range roll over *)
NewDate(y, mo, day) == (y * 12 + mo) * DaysPerMonth + (day - 1)

firstOfMonth(d) == NewDate(getFullYear(d), getMonth(d), 1)
endOfMonth(d) == NewDate(getFullYear(d), getMonth(d) + 1, 0)
addMonths(d, n) == NewDate(getFullYear(d), getMonth(d) + n, 1)

(* Strings are sequences of character codes *)
Hyphen == 45
LetterQ == 81
Digit(n) == 48 + n

RECURSIVE StringOf(_)
StringOf(n) == IF n < 10 THEN <<Digit(n)>> ELSE Append(StringOf(n \div 10), Digit(n % 10))

padStart2(n) == IF n < 10 THEN <<Digit(0), Digit(n)>> ELSE StringOf(n)

(* a.localeCompare(b) of strings of digits, hyphens and letters *)
RECURSIVE localeCompare(_, _)
localeCompare(a, b) ==
  IF a = <<>> /\ b = <<>> THEN 0
  ELSE IF a = <<>> THEN -1
  ELSE IF b = <<>> THEN 1
  ELSE IF Head(a) < Head(b) THEN -1
  ELSE IF Head(a) > Head(b) THEN 1
  ELSE localeCompare(Tail(a), Tail(b))

formatPeriodKeyMonthly(d) ==
  StringOf(getFullYear(d)) \o <<Hyphen>> \o padStart2(getMonth(d) + 1)

(* lines 146-158 (the label, a rendering of the key's month, left out) *)
RECURSIVE buildMonthlyPeriods(_, _)
buildMonthlyPeriods(startMonth, endMonth) ==
  IF ~(startMonth <= endMonth) THEN <<>>
  ELSE <<[key |-> formatPeriodKeyMonthly(firstOfMonth(startMonth)),
          start |-> firstOfMonth(startMonth),
          end |-> endOfMonth(firstOfMonth(startMonth))]>>
       \o buildMonthlyPeriods(addMonths(startMonth, 1), endMonth)

(* the key under which a monthly period is grouped *)
QuarterKey(y, q) == StringOf(y) \o <<Hyphen, LetterQ>> \o StringOf(q)

GroupKey(p, grain) ==
  IF grain = "annually" THEN getFullYear(p.start)
  ELSE QuarterKey(getFullYear(p.start), getMonth(p.start) \div 3 + 1)

(* a key for every period, repeated when the Map has the key already *)
MapKeysRepeated(periods, grain) == [i \in 1..Len(periods) |-> GroupKey(periods[i], grain)]

(* the keys of a Map in insertion order *)
RECURSIVE MapKeys(_, _)
MapKeys(periods, grain) ==
  IF periods = <<>> THEN <<>>
  ELSE LET init == MapKeys(SubSeq(periods, 1, Len(periods) - 1), grain)
           k == GroupKey(periods[Len(periods)], grain)
       IN IF \E i \in 1..Len(init) : init[i] = k THEN init ELSE Append(init, k)

(* lines 180 and 200: the comparators of the two sorts *)
CompareKeys(a, b, grain) ==
  IF grain = "annually" THEN a - b
  ELSE localeCompare(a, b)

RECURSIVE SortKeys(_, _)
SortKeys(keys, grain) ==
  IF keys = <<>> THEN <<>>
  ELSE LET rest == SortKeys(Tail(keys), grain)
           n == Cardinality({i \in 1..Len(rest) : CompareKeys(rest[i], Head(keys), grain) < 0})
       IN SubSeq(rest, 1, n) \o <<Head(keys)>> \o SubSeq(rest, n + 1, Len(rest))

(* lines 166-208 *)
aggregatePeriodsFromMonthly(monthlyPeriods, grain) ==
  IF grain = "monthly" THEN monthlyPeriods
  ELSE LET keys == SortKeys(MapKeys(monthlyPeriods, grain), grain)
           months(k) == SelectSeq(monthlyPeriods, LAMBDA p : GroupKey(p, grain) = k)
       IN [g \in 1..Len(keys) |->
             [key |-> IF grain = "annually" THEN StringOf(keys[g]) ELSE keys[g],
              start |-> months(keys[g])[1].start,
              end |-> months(keys[g])[Len(months(keys[g]))].end,
              members |-> [j \in 1..Len(months(keys[g])) |-> months(keys[g])[j].key]]]

----------------------------------------------------------------------------
(* buildMonthlyPeriods and aggregatePeriodsFromMonthly on their own, for   *)
(* ranges of at most MaxSpanDays days that start in one of FirstYears      *)

MaxSpanDays == 30
FirstYears == {999, 2024}

InitPeriods ==
  /\ InitBase(LocalEnvs, {NoHist}, 1)
  /\ pure \in { [stage |-> "range", rangeStart |-> NewDate(y, mo, day), rangeEnd |-> NewDate(y, mo, day) + span] :
                  y \in FirstYears, mo \in 0..11, day \in 1..DaysPerMonth, span \in 0..MaxSpanDays }

(* report.ts lines 100-102 *)
Aggregate(grain) ==
  /\ pure.stage = "range"
  /\ \E monthlyPeriods \in {buildMonthlyPeriods(firstOfMonth(pure.rangeStart), firstOfMonth(pure.rangeEnd))} :
       pure' = [stage |-> "aggregated", rangeStart |-> pure.rangeStart, rangeEnd |-> pure.rangeEnd,
                grain |-> grain, monthlyPeriods |-> monthlyPeriods,
                aggregated |-> aggregatePeriodsFromMonthly(monthlyPeriods, grain)]
  /\ UNCHANGED <<now, env, ledger, disk, chain, call, reader, report, cache, hist>>

NextPeriods == \E grain \in {"quarterly", "annually"} : Aggregate(grain)

SpecPeriods == InitPeriods /\ [][NextPeriods]_vars

(* the groups of which a monthly key is a member, with the position *)
MemberOf(groups, key) ==
  { <<g, j>> \in (1..Len(groups)) \X (1..12) :
      j <= Len(groups[g].members) /\ groups[g].members[j] = key }

(* the monthly period of a key *)
PeriodOf(monthlyPeriods, key) ==
  CHOOSE i \in 1..Len(monthlyPeriods) : monthlyPeriods[i].key = key

Partitions(monthlyPeriods, groups) ==
  /\ \A i \in 1..Len(monthlyPeriods) :
       Cardinality(MemberOf(groups, monthlyPeriods[i].key)) = 1
  /\ \A g \in 1..Len(groups) : \A j \in 1..Len(groups[g].members) :
       \E i \in 1..Len(monthlyPeriods) : monthlyPeriods[i].key = groups[g].members[j]
  /\ \A g \in 1..Len(groups) : \A j \in 1..(Len(groups[g].members) - 1) :
       PeriodOf(monthlyPeriods, groups[g].members[j])
         < PeriodOf(monthlyPeriods, groups[g].members[j + 1])

(* groups in chronological order *)
Chronological(groups) ==
  \A g \in 1..(Len(groups) - 1) : groups[g].end < groups[g + 1].start

(* C16 (amended): the quarterly and the annual groups partition the       *)
(* monthly periods (every monthly key in exactly one group, no other      *)
(* member) and members are in chronological order; annual groups are in   *)
(* chronological order, quarterly groups in the lexicographic order of    *)
(* their keys, which is chronological when the years of the range have    *)
(* the same number of digits.                                             *)
C16_GroupsPartition ==
  pure.stage = "aggregated" =>
    /\ Partitions(pure.monthlyPeriods, pure.aggregated)
    /\ pure.grain = "annually" => Chronological(pure.aggregated)
    /\ pure.grain = "quarterly" =>
         /\ \A g \in 1..(Len(pure.aggregated) - 1) :
              localeCompare(pure.aggregated[g].key, pure.aggregated[g + 1].key) < 0
         /\ Len(StringOf(getFullYear(pure.rangeStart))) = Len(StringOf(getFullYear(pure.rangeEnd)))
              => Chronological(pure.aggregated)

(* quarterly groups of a range that crosses a year's end *)
C16_Witness ==
  /\ pure.stage = "aggregated"
  /\ pure.grain = "quarterly"
  /\ Len(pure.aggregated) >= 3
  /\ getFullYear(pure.rangeStart) = 2024
  /\ getFullYear(pure.rangeEnd) = 2025
  /\ Len(pure.aggregated[1].members) = 2

(* C16 as stated: the groups partition the monthly periods, members are   *)
(* in chronological order and so are the groups, for every range.         *)
C16_GroupsPartitionInOrder ==
  pure.stage = "aggregated" =>
    /\ Partitions(pure.monthlyPeriods, pure.aggregated)
    /\ Chronological(pure.aggregated)

----------------------------------------------------------------------------
(* The CRM report's line items (lib/logic.ts).  Money is in cents, a rate   *)
(* in hundredths; a property that is absent or does not parse is BadDate    *)
(* (a date) or 0 (a number).                                                *)

RateScale == 100
OpenEndYear == 2100

NoWindow == [ok |-> FALSE, start |-> BadDate, end |-> BadDate, endIsOpenEnded |-> FALSE]

(* a || b of two parsed dates *)
OrElse(a, b) == IF a # BadDate THEN a ELSE b

(* a window whose start prefers the billing-period start *)
computeWindowFromBillingPeriod(p) ==
  LET start == OrElse(parseDate(p.hs_billing_period_start_date),
                      parseDate(p.hs_recurring_billing_start_date))
  IN IF start = BadDate THEN NoWindow
     ELSE [ok |-> TRUE, start |-> start, end |-> NewDate(OpenEndYear, 0, 1),
           endIsOpenEnded |-> TRUE]

(* lines 84-108 *)
computeWindowForLineItem(p) ==
  LET start == OrElse(parseDate(p.hs_recurring_billing_start_date),
                      parseDate(p.hs_billing_period_start_date))
      end == OrElse(parseDate(p.hs_recurring_billing_end_date),
                    parseDate(p.hs_billing_period_end_date))
  IN IF start = BadDate THEN NoWindow
     ELSE IF end # BadDate
       THEN [ok |-> TRUE, start |-> start, end |-> end, endIsOpenEnded |-> FALSE]
     ELSE IF p.hs_term_in_months # 0
       THEN [ok |-> TRUE, start |-> start,
             end |-> NewDate(getFullYear(start), getMonth(start) + p.hs_term_in_months,
                             getDate(start) - 1),
             endIsOpenEnded |-> FALSE]
     ELSE [ok |-> TRUE, start |-> start, end |-> NewDate(OpenEndYear, 0, 1),
           endIsOpenEnded |-> TRUE]

(* lines 110-115 *)
isOneTimeLineItem(p) ==
  ~computeWindowForLineItem(p).ok \/ computeWindowForLineItem(p).endIsOpenEnded

(* Strings as the sequences of their character codes: what includes, trim and
   toLowerCase read.  Spelling gives the characters of every label the model draws. *)

Spelling ==
  "" :> <<>>
    @@ "one_time" :> <<111, 110, 101, 95, 116, 105, 109, 101>>
    @@ "One-Time" :> <<79, 110, 101, 45, 84, 105, 109, 101>>
    @@ "none" :> <<110, 111, 110, 101>>
    @@ "per_six_months" :> <<112, 101, 114, 95, 115, 105, 120, 95, 109, 111, 110, 116, 104, 115>>
    @@ "every_six_months" :> <<101, 118, 101, 114, 121, 95, 115, 105, 120, 95, 109, 111, 110, 116, 104, 115>>
    @@ "every_6_months" :> <<101, 118, 101, 114, 121, 95, 54, 95, 109, 111, 110, 116, 104, 115>>
    @@ "semiannually" :> <<115, 101, 109, 105, 97, 110, 110, 117, 97, 108, 108, 121>>
    @@ "half_yearly" :> <<104, 97, 108, 102, 95, 121, 101, 97, 114, 108, 121>>
    @@ "per_quarter" :> <<112, 101, 114, 95, 113, 117, 97, 114, 116, 101, 114>>
    @@ "quarterly" :> <<113, 117, 97, 114, 116, 101, 114, 108, 121>>
    @@ "every_three_months" :> <<101, 118, 101, 114, 121, 95, 116, 104, 114, 101, 101, 95, 109, 111, 110, 116, 104, 115>>
    @@ "every_3_months" :> <<101, 118, 101, 114, 121, 95, 51, 95, 109, 111, 110, 116, 104, 115>>
    @@ "monthly" :> <<109, 111, 110, 116, 104, 108, 121>>
    @@ " Monthly " :> <<32, 77, 111, 110, 116, 104, 108, 121, 32>>
    @@ "annually" :> <<97, 110, 110, 117, 97, 108, 108, 121>>
    @@ "yearly" :> <<121, 101, 97, 114, 108, 121>>
    @@ "per_year" :> <<112, 101, 114, 95, 121, 101, 97, 114>>
    @@ "weekly" :> <<119, 101, 101, 107, 108, 121>>
    @@ "biweekly" :> <<98, 105, 119, 101, 101, 107, 108, 121>>
    @@ "per_two_years" :> <<112, 101, 114, 95, 116, 119, 111, 95, 121, 101, 97, 114, 115>>
    @@ "per_three_years" :> <<112, 101, 114, 95, 116, 104, 114, 101, 101, 95, 121, 101, 97, 114, 115>>

FrequencyLabels == DOMAIN Spelling

Word_one == <<111, 110, 101>>

Word_six == <<115, 105, 120>>

Word_month == <<109, 111, 110, 116, 104>>

Word_quarter == <<113, 117, 97, 114, 116, 101, 114>>

Word_three == <<116, 104, 114, 101, 101>>

Word_semi == <<115, 101, 109, 105>>

Word_half == <<104, 97, 108, 102>>

Word_year == <<121, 101, 97, 114>>

Word_annual == <<97, 110, 110, 117, 97, 108>>

Space == 32

(* s.includes(t) *)
includes(s, t) ==
  \E i \in 0..(Len(s) - Len(t)) : SubSeq(s, i + 1, i + Len(t)) = t

(* s.trim(), for the one white-space character the labels hold *)
RECURSIVE trim(_)
trim(s) ==
  IF s = <<>> THEN s
  ELSE IF Head(s) = Space THEN trim(Tail(s))
  ELSE IF s[Len(s)] = Space THEN trim(SubSeq(s, 1, Len(s) - 1))
  ELSE s

(* s.toLowerCase() of a string of ASCII characters *)
toLowerCase(s) == [i \in 1..Len(s) |-> IF s[i] >= 65 /\ s[i] <= 90 THEN s[i] + 32 ELSE s[i]]

(* lines 117-131, on the characters of the label *)
frequencyMultiplierOfString(raw) ==
  LET freq == toLowerCase(trim(raw))
  IN IF includes(freq, Word_one) THEN 0
     ELSE IF freq = Spelling["per_six_months"]
             \/ (includes(freq, Word_six) /\ includes(freq, Word_month)) THEN 2
     ELSE IF freq = Spelling["per_quarter"] \/ includes(freq, Word_quarter)
             \/ (includes(freq, Word_three) /\ includes(freq, Word_month)) THEN 4
     ELSE IF includes(freq, Word_semi) \/ includes(freq, Word_half) THEN 2
     ELSE IF includes(freq, Word_month) THEN 12
     ELSE IF includes(freq, Word_year) \/ includes(freq, Word_annual) THEN 1
     ELSE 0

(* the multiplier of every label, computed once *)
Multipliers == [l \in FrequencyLabels |-> frequencyMultiplierOfString(Spelling[l])]

(* lines 117-131: String(freqRaw || "") is the label itself *)
frequencyMultiplier(freqRaw) == Multipliers[freqRaw]

(* an annualized amount that does not ask whether the item is one-time *)
computeCalculatedArrOfAnyWindow(p) ==
  (IF p.amount # 0 THEN p.amount ELSE p.net_price) * frequencyMultiplier(p.recurringbillingfrequency)

(* lines 132-144 *)
computeCalculatedArrForLineItem(p) ==
  IF isOneTimeLineItem(p) THEN 0
  ELSE (IF p.amount # 0 THEN p.amount ELSE p.net_price)
         * frequencyMultiplier(p.recurringbillingfrequency)

(* round2(liArr * fx.rate): Math.round of cents *)
round2Times(cents, rate) == (cents * rate + RateScale \div 2) \div RateScale

----------------------------------------------------------------------------
(* The rate service (lib/fx.ts) *)

FX_TARGET_CURRENCY == "USD"

RECURSIVE SumOf(_)
SumOf(seq) == IF seq = <<>> THEN 0 ELSE Head(seq) + SumOf(Tail(seq))

(* lines 48-85: service is how the request ends and the daily rates of the *)
(* answer (an entry that is no positive number is <= 0)                    *)
fetchFrankfurterMonthlyAverage(service) ==
  IF service.kind = "rejected" THEN [threw |-> TRUE, rate |-> 0]
  ELSE IF service.kind # "ok" THEN [threw |-> FALSE, rate |-> 0]
  ELSE LET positive == SelectSeq(service.rates, LAMBDA r : r > 0)
       IN [threw |-> FALSE,
           rate |-> IF positive = <<>> THEN 0 ELSE SumOf(positive) \div Len(positive)]

(* lines 19-46, FX_MONTHLY_CACHE empty *)
getMonthlyAverageFxRateForCloseMonth(fromCurrency, toCurrency, service) ==
  IF fromCurrency = "" \/ toCurrency = "" THEN [threw |-> FALSE, rate |-> 0]
  ELSE IF fromCurrency = toCurrency THEN [threw |-> FALSE, rate |-> RateScale]
  ELSE fetchFrankfurterMonthlyAverage(service)

----------------------------------------------------------------------------
(* generateReport over the CRM (lib/report.ts, lines 82-380), for a stage  *)
(* that holds no deal or one deal                                          *)

(* lines 42-54 *)
buildDailyPeriods(start, end) == [i \in 1..(end - start + 1) |-> start + i - 1]

(* lines 56-79: the line items that can be the earliest recurring one *)
Recurring(items) ==
  { i \in 1..Len(items) :
      /\ ~isOneTimeLineItem(items[i])
      /\ computeCalculatedArrForLineItem(items[i]) > 0 }

findEarliestNonOneTimeLineItemStart(items) ==
  IF Recurring(items) = {} THEN 0
  ELSE CHOOSE i \in Recurring(items) : \A j \in Recurring(items) :
         \/ computeWindowForLineItem(items[i]).start < computeWindowForLineItem(items[j]).start
         \/ /\ computeWindowForLineItem(items[i]).start = computeWindowForLineItem(items[j]).start
            /\ i <= j

covers(w, instant) == w.start <= instant /\ w.end >= instant

(* a carry range that stops before the month of the earliest start *)
inCarryRangeBeforeStart(allowCarry, closeMonth, earliestBillingStartMonth, mpStart) ==
  allowCarry /\ mpStart >= closeMonth /\ mpStart < earliestBillingStartMonth

(* lines 274-279 *)
inCarryRange(allowCarry, closeMonth, earliestBillingStartMonth, mpStart) ==
  allowCarry /\ mpStart >= closeMonth /\ mpStart <= earliestBillingStartMonth

(* lines 217-282: the value of a line item in a monthly period *)
valueMonthly(mode, deal, items, i, liArrFx, mp) ==
  LET w == computeWindowForLineItem(items[i])
      closeDate == parseDate(deal.closedate)
      closeMonth == IF closeDate # BadDate THEN firstOfMonth(closeDate) ELSE BadDate
      isExistingBusiness == deal.dealtype \in {"existingbusiness", "upsell"}
      earliestLiId == IF mode = "contracted" THEN findEarliestNonOneTimeLineItemStart(items) ELSE 0
      earliestStart == IF earliestLiId # 0 THEN computeWindowForLineItem(items[earliestLiId]).start
                       ELSE BadDate
      allowCarry == /\ mode = "contracted"
                    /\ ~isExistingBusiness
                    /\ closeDate # BadDate
                    /\ earliestStart # BadDate
                    /\ closeDate < earliestStart
  IN IF ~w.ok \/ liArrFx = 0 THEN 0
     ELSE IF mode = "arr" \/ isExistingBusiness \/ earliestLiId # i
       THEN (IF covers(w, mp.end) THEN liArrFx ELSE 0)
     ELSE IF \/ (closeMonth # BadDate /\ mp.start = closeMonth)
             \/ inCarryRange(allowCarry, closeMonth, firstOfMonth(earliestStart), mp.start)
             \/ covers(w, mp.end)
       THEN liArrFx
     ELSE 0

(* lines 284-336: the values of a line item in the periods of the grain *)
valuesByPeriod(body, deal, items, i, liArrFx, monthlyPeriods, aggregated, dailyPeriods) ==
  LET monthOf(key) == CHOOSE m \in 1..Len(monthlyPeriods) : monthlyPeriods[m].key = key
      w == computeWindowForLineItem(items[i])
  IN IF body.grain = "monthly"
       THEN [m \in 1..Len(monthlyPeriods) |->
               valueMonthly(body.mode, deal, items, i, liArrFx, monthlyPeriods[m])]
     ELSE IF body.grain \in {"quarterly", "annually"}
       THEN [g \in 1..Len(aggregated) |->
               SumOf([j \in 1..Len(aggregated[g].members) |->
                        valueMonthly(body.mode, deal, items, i, liArrFx,
                                     monthlyPeriods[monthOf(aggregated[g].members[j])])])]
     ELSE [d \in 1..Len(dailyPeriods) |->
             IF w.ok /\ liArrFx # 0 /\ covers(w, dailyPeriods[d]) THEN liArrFx ELSE 0]

(* totals made of the first row alone *)
totalsOfFirstRow(periods, rows) ==
  [p \in 1..periods |-> IF rows = <<>> THEN 0 ELSE rows[1].valuesByPeriod[p]]

(* lines 373-376: per output period, the sum of the rows' values *)
totalsByPeriod(periods, rows) ==
  [p \in 1..periods |-> SumOf([r \in 1..Len(rows) |-> rows[r].valuesByPeriod[p]])]

Thrown(message, crmCalls) ==
  [error |-> message, crmCalls |-> crmCalls, periods |-> 0, rows |-> <<>>,
   totalsByPeriod |-> <<>>]

(* lines 82-380; crmCalls counts the CRM requests made *)
generateReport(includedStage, body, deals, items, service) ==
  LET startVal == parseDate(IF body.startDate # BadDate THEN body.startDate ELSE body.startMonth)
      endVal == parseDate(IF body.endDate # BadDate THEN body.endDate ELSE body.endMonth)
      monthlyPeriods == buildMonthlyPeriods(firstOfMonth(startVal), firstOfMonth(endVal))
      dailyPeriods == buildDailyPeriods(startVal, endVal)
      aggregated == aggregatePeriodsFromMonthly(monthlyPeriods, body.grain)
      periods == IF body.grain = "daily" THEN Len(dailyPeriods) ELSE Len(aggregated)
      deal == deals[1]
      closeDate == parseDate(deal.closedate)
      dealCurrency == IF deal.deal_currency_code # "" THEN deal.deal_currency_code
                      ELSE FX_TARGET_CURRENCY
      fx == getMonthlyAverageFxRateForCloseMonth(dealCurrency, FX_TARGET_CURRENCY, service)
      liArrFx(i) == IF fx.rate # 0 /\ computeCalculatedArrForLineItem(items[i]) # 0
                      THEN round2Times(computeCalculatedArrForLineItem(items[i]), fx.rate)
                      ELSE 0
  IN IF includedStage = "" THEN Thrown("Missing env var: INCLUDED_DEALSTAGE", 0)
     ELSE IF startVal = BadDate \/ endVal = BadDate THEN Thrown("Invalid startDate/endDate", 0)
     ELSE IF endVal < startVal THEN Thrown("endDate must be >= startDate", 0)
     ELSE IF deals = <<>> THEN [Thrown("", 1) EXCEPT !.periods = periods]
     ELSE IF /\ body.mode = "contracted" /\ ~body.contractedIncludeAllDeals /\ body.grain # "daily"
             /\ ~(closeDate # BadDate /\ closeDate >= startVal /\ closeDate <= endVal)
       THEN [Thrown("", 1) EXCEPT !.periods = periods]
     ELSE IF fx.threw THEN Thrown("fetch failed", 3)
     ELSE \* the rows of the deal's line items, and their totals
       LET rows == [i \in 1..Len(items) |->
                      [lineItemId |-> i, valueUsd |-> liArrFx(i),
                       valuesByPeriod |-> valuesByPeriod(body, deal, items, i, liArrFx(i),
                                            monthlyPeriods, aggregated, dailyPeriods)]]
       IN [error |-> "", crmCalls |-> 3, periods |-> periods, rows |-> rows,
           totalsByPeriod |-> totalsByPeriod(periods, rows)]

----------------------------------------------------------------------------
(* generateReport on its own: a request, the stage's deal with its line    *)
(* items, and how the rate service answers                                 *)

ReportYear == 2024
Jan1 == NewDate(ReportYear, 0, 1)
Jan2 == NewDate(ReportYear, 0, 2)
Feb1 == NewDate(ReportYear, 1, 1)
Mar1 == NewDate(ReportYear, 2, 1)
AprEnd == NewDate(ReportYear, 4, 0)

Body(startDate, endDate, mode, grain, all) ==
  [startDate |-> startDate, startMonth |-> BadDate, endDate |-> endDate, endMonth |-> BadDate,
   mode |-> mode, grain |-> grain, contractedIncludeAllDeals |-> all]

CrmGrains == {"monthly", "quarterly", "annually", "daily"}

ValidBodies ==
  { Body(Jan1, AprEnd, "arr", g, FALSE) : g \in CrmGrains }
    \cup { Body(Jan1, AprEnd, "contracted", g, all) : g \in CrmGrains, all \in BOOLEAN }

Deals ==
  { <<[closedate |-> c, dealtype |-> t, deal_currency_code |-> cur]>> :
      c \in {BadDate, Jan2, Feb1, Mar1}, t \in {"newbusiness", "upsell"}, cur \in {"", "EUR"} }

LineItem(rs, ps, re, term, amount, net, freq) ==
  [hs_recurring_billing_start_date |-> rs, hs_billing_period_start_date |-> ps,
   hs_recurring_billing_end_date |-> re, hs_billing_period_end_date |-> BadDate,
   hs_term_in_months |-> term, amount |-> amount, net_price |-> net,
   recurringbillingfrequency |-> freq]

LineItems ==
  { LineItem(s[1], s[2], e[1], e[2], 1001, 0, "monthly") :
      s \in {<<BadDate, BadDate>>, <<Feb1, BadDate>>, <<Mar1, BadDate>>, <<BadDate, Mar1>>},
      e \in {<<BadDate, 0>>, <<BadDate, 1>>, <<Mar1, 0>>} }
    \cup {LineItem(Feb1, BadDate, BadDate, 2, 0, 500, "annually"),
          LineItem(Feb1, BadDate, BadDate, 1, 1001, 0, "one_time")}

ItemLists ==
  {<<>>} \cup { <<a>> : a \in LineItems } \cup { <<a, b>> : a \in LineItems, b \in LineItems }

Answering == [kind |-> "ok", rates |-> <<100, 0, 150>>]

InitCrm(stages, bodies, deals, itemLists, services) ==
  /\ InitBase(LocalEnvs, {NoHist}, 1)
  /\ pure \in [stage : {"request"}, includedStage : stages, body : bodies, deals : deals,
               items : itemLists, service : services]

GenerateReport ==
  /\ pure.stage = "request"
  /\ pure' = [stage |-> "report", includedStage |-> pure.includedStage, body |-> pure.body,
              deals |-> pure.deals, items |-> pure.items, service |-> pure.service,
              out |-> generateReport(pure.includedStage, pure.body, pure.deals, pure.items,
                                     pure.service)]
  /\ UNCHANGED <<now, env, ledger, disk, chain, call, reader, report, cache, hist>>

InitRows == InitCrm({"closedwon"}, ValidBodies, Deals, ItemLists, {Answering})

SpecRows == InitRows /\ [][GenerateReport]_vars

(* a report with the rows of its deal *)
Reported == pure.stage = "report" /\ pure.out.error = "" /\ pure.out.rows # <<>>

(* C17: a line item with no window or an open-ended window has calculated *)
(* ARR 0, and every value of its row is 0, whatever its amount and         *)
(* frequency, the mode and the grain.                                      *)
C17_OneTimeItemsAreZero ==
  Reported =>
    \A i \in 1..Len(pure.items) :
      LET w == computeWindowForLineItem(pure.items[i]) IN
      (~w.ok \/ w.endIsOpenEnded) =>
        /\ computeCalculatedArrForLineItem(pure.items[i]) = 0
        /\ pure.out.rows[i].valueUsd = 0
        /\ \A k \in 1..Len(pure.out.rows[i].valuesByPeriod) :
             pure.out.rows[i].valuesByPeriod[k] = 0

(* an open-ended item with an amount that has started, beside an item that *)
(* is carried from the close month of its new-business deal               *)
C17_Witness ==
  /\ Reported
  /\ pure.body.mode = "contracted"
  /\ pure.body.grain = "monthly"
  /\ Len(pure.items) = 2
  /\ computeWindowForLineItem(pure.items[1]).endIsOpenEnded
  /\ computeWindowForLineItem(pure.items[1]).start = Feb1
  /\ pure.items[1].amount > 0
  /\ pure.deals[1].closedate = Jan2
  /\ pure.out.rows[2].valuesByPeriod[1] > 0

(* the monthly periods of the report *)
MonthsOf(body) == buildMonthlyPeriods(firstOfMonth(body.startDate), firstOfMonth(body.endDate))

(* the item's value where its window covers the instant, else 0 *)
Straight(i, instant) ==
  IF computeWindowForLineItem(pure.items[i]).ok
       /\ covers(computeWindowForLineItem(pure.items[i]), instant)
    THEN pure.out.rows[i].valueUsd
    ELSE 0

(* item e starts first among the recurring items: the first of them in    *)
(* the deal's order when several start on that day                        *)
IsEarliest(e) ==
  /\ e \in Recurring(pure.items)
  /\ \A j \in Recurring(pure.items) :
       \/ computeWindowForLineItem(pure.items[e]).start < computeWindowForLineItem(pure.items[j]).start
       \/ /\ computeWindowForLineItem(pure.items[e]).start = computeWindowForLineItem(pure.items[j]).start
          /\ e <= j

(* the deal closes before item e, its earliest recurring item, starts, and *)
(* is no existing business                                                 *)
Carries(e) ==
  /\ pure.body.mode = "contracted"
  /\ pure.deals[1].dealtype \notin {"existingbusiness", "upsell"}
  /\ pure.deals[1].closedate # BadDate
  /\ IsEarliest(e)
  /\ pure.deals[1].closedate < computeWindowForLineItem(pure.items[e]).start

(* C18: contracted mode, monthly grain, a deal that is not existing        *)
(* business or upsell and closes before its earliest recurring item        *)
(* starts: that item has its value in every month from the close month     *)
(* through the month of its start and in the months whose end its window   *)
(* covers, and 0 elsewhere; every other item has its value exactly in the  *)
(* months whose end its window covers.                                     *)
C18_CarryFromCloseMonth ==
  (Reported /\ pure.body.grain = "monthly") =>
    \A e \in 1..Len(pure.items) : Carries(e) =>
      \A i \in 1..Len(pure.items) : \A m \in 1..Len(MonthsOf(pure.body)) :
        LET mp == MonthsOf(pure.body)[m] IN
        pure.out.rows[i].valuesByPeriod[m] =
          IF /\ i = e
             /\ mp.start >= firstOfMonth(pure.deals[1].closedate)
             /\ mp.start <= firstOfMonth(computeWindowForLineItem(pure.items[e]).start)
            THEN pure.out.rows[i].valueUsd
            ELSE Straight(i, mp.end)

(* the earliest item carried from January to March, a month whose end its *)
(* window does not cover, beside an item that is not carried              *)
C18_Witness ==
  /\ Reported
  /\ pure.body.grain = "monthly"
  /\ Len(pure.items) = 2
  /\ Carries(1)
  /\ pure.deals[1].closedate = Jan2
  /\ computeWindowForLineItem(pure.items[1]).start = Mar1
  /\ computeWindowForLineItem(pure.items[1]).end = Mar1
  /\ pure.out.rows[1].valueUsd > 0
  /\ \A m \in 1..3 : pure.out.rows[1].valuesByPeriod[m] = pure.out.rows[1].valueUsd
  /\ pure.out.rows[1].valuesByPeriod[4] = 0
  /\ pure.out.rows[2].valueUsd > 0
  /\ pure.out.rows[2].valuesByPeriod[1] = 0

(* C19: in contracted mode, a row that is not the earliest recurring item *)
(* of a deal that carries has, in every monthly period, exactly the        *)
(* straight window-coverage value.                                         *)
C19_NoCarryMeansStraightCoverage ==
  (Reported /\ pure.body.mode = "contracted" /\ pure.body.grain = "monthly") =>
    \A i \in 1..Len(pure.items) : ~Carries(i) =>
      \A m \in 1..Len(MonthsOf(pure.body)) :
        pure.out.rows[i].valuesByPeriod[m] = Straight(i, MonthsOf(pure.body)[m].end)

----------------------------------------------------------------------------
(* generateReport when the rate service fails *)

Services ==
  {[kind |-> k, rates |-> <<>>] : k \in {"rejected", "http", "body", "ok"}}
    \cup {[kind |-> "ok", rates |-> <<0, -1>>], Answering}

InitFx ==
  InitCrm({"closedwon"}, ValidBodies, Deals,
          {<<>>} \cup { <<a>> : a \in LineItems }, Services)

SpecFx == InitFx /\ [][GenerateReport]_vars

(* the service has no rate for the deal's currency *)
RateFails ==
  /\ pure.deals[1].deal_currency_code \notin {"", FX_TARGET_CURRENCY}
  /\ pure.service.kind = "ok" => \A r \in 1..Len(pure.service.rates) : pure.service.rates[r] <= 0

(* C20: when the rate service fails for a deal's currency (a rejected     *)
(* request, a non-OK status, an unparseable body, an empty series or no    *)
(* positive rate), generateReport does not fail, and every value of every  *)
(* row of the deal is 0.                                                   *)
C20_RateFailureGivesZeroRows ==
  (pure.stage = "report" /\ RateFails) =>
    /\ pure.out.error = ""
    /\ \A i \in 1..Len(pure.out.rows) :
         /\ pure.out.rows[i].valueUsd = 0
         /\ \A k \in 1..Len(pure.out.rows[i].valuesByPeriod) :
              pure.out.rows[i].valuesByPeriod[k] = 0

----------------------------------------------------------------------------
(* The three entry points called with valid and invalid ranges: one caller *)
(* of ensureStripeSyncForRange step by step, the ledger report, and the    *)
(* CRM report with INCLUDED_DEALSTAGE set or not                           *)

(* a valid range and the three kinds of invalid ones *)
Ranges(first, last) == {<<first, last>>, <<BadDate, last>>, <<first, BadDate>>, <<last, first>>}

RangeBodies ==
  { Body(r[1], r[2], "arr", "monthly", FALSE) : r \in Ranges(Jan1, AprEnd) }
    \cup {[Body(BadDate, BadDate, "arr", "monthly", FALSE) EXCEPT !.startMonth = Jan1, !.endMonth = AprEnd]}

InitValidate ==
  /\ InitCrm({"", "closedwon"}, RangeBodies,
             {<<[closedate |-> Jan2, dealtype |-> "newbusiness", deal_currency_code |-> ""]>>},
             {<<LineItem(Feb1, BadDate, BadDate, 1, 1001, 0, "monthly")>>}, {Answering})
  /\ env.maxInvoices = MaxBatch

NextValidate ==
  \/ \E r \in Ranges(1, MaxDay) : EnsureCall(1, r[1], r[2], FALSE)
  \/ EnsureRun(1)
  \/ FetchReturn(1)
  \/ FetchFail(1)
  \/ WriteTruncate(1)
  \/ WriteDone(1)
  \/ WriteFail(1)
  \/ \E r \in Ranges(1, MaxDay) : GenerateCall(r[1], r[2], "monthly")
  \/ GenerateReport

SpecValidate == InitValidate /\ [][NextValidate]_vars

ValidationErrors == {"Invalid startDate/endDate", "endDate must be >= startDate"}

(* a start or an end that does not parse, or an end before the start *)
InvalidRange(startDate, endDate) ==
  \/ parseDate(startDate) = BadDate
  \/ parseDate(endDate) = BadDate
  \/ parseDate(endDate) < parseDate(startDate)

InvalidBody(body) ==
  InvalidRange(IF body.startDate # BadDate THEN body.startDate ELSE body.startMonth,
               IF body.endDate # BadDate THEN body.endDate ELSE body.endMonth)

(* the two ledger entry points reject an invalid range and touch nothing *)
LedgerCallsValidateFirst ==
  \A r \in Ranges(1, MaxDay) : InvalidRange(r[1], r[2]) =>
    /\ GenerateCall(r[1], r[2], "monthly") =>
         /\ report'.pc = "idle"
         /\ report'.answer.status = "rejected"
         /\ report'.answer.reason \in ValidationErrors
         /\ UNCHANGED <<disk, chain, call, cache, hist>>
    /\ EnsureCall(1, r[1], r[2], FALSE) =>
         /\ call'[1].pc = "idle"
         /\ call'[1].result.status = "rejected"
         /\ call'[1].result.reason \in ValidationErrors
         /\ call'[1].result.ledgerCalls = 0
         /\ UNCHANGED <<disk, chain, cache, hist>>

(* C12 (amended): called with an unparseable start or end date or an end  *)
(* before the start, generateStripeReport and ensureStripeSyncForRange     *)
(* fail with an input-validation error before any ledger fetch, snapshot  *)
(* read or write, lock acquisition or cache access; so does generateReport *)
(* before any CRM fetch when INCLUDED_DEALSTAGE is set, and when it is not *)
(* set generateReport fails with the missing-variable error instead, also  *)
(* before any CRM fetch.                                                   *)
C12_InvalidRangeFailsFirst ==
  [][/\ LedgerCallsValidateFirst
     /\ (GenerateReport /\ InvalidBody(pure.body)) =>
          /\ pure'.out.crmCalls = 0
          /\ pure'.out.rows = <<>>
          /\ pure'.out.error \in (IF pure.includedStage # "" THEN ValidationErrors
                                  ELSE {"Missing env var: INCLUDED_DEALSTAGE"})]_vars

(* each entry point has rejected an invalid range, a snapshot being stored *)
C12_Witness ==
  /\ disk # Absent
  /\ report.answer.status = "rejected"
  /\ call[1].result.status = "rejected"
  /\ call[1].result.ledgerCalls = 0
  /\ pure.stage = "report"
  /\ pure.includedStage # ""
  /\ pure.out.error = "endDate must be >= startDate"

(* C12 as stated: every one of the three fails with an input-validation   *)
(* error before any fetch, snapshot access, lock acquisition or cache      *)
(* access.                                                                 *)
C12_InvalidRangeIsValidationError ==
  [][/\ LedgerCallsValidateFirst
     /\ (GenerateReport /\ InvalidBody(pure.body)) =>
          /\ pure'.out.crmCalls = 0
          /\ pure'.out.error \in ValidationErrors]_vars

-----------------------------------------------------------------------------
(* The HTTP clients: stripeFetch (Stripe client, lines 75-110) and hsFetch   *)
(* (lib/hubspot.ts, lines 57-85).  Both are the same loop over attempt =     *)
(* 0..MAX_RETRIES; pure holds the client, whether its credential is in the   *)
(* environment, the loop counter, the statuses of the responses received so  *)
(* far (one per HTTP attempt) and the outcome.                               *)

STRIPE_MAX_RETRIES == 4
HUBSPOT_MAX_RETRIES == 6

(* the loop bound of a client *)
MaxRetriesOf(client) == IF client = "stripe" THEN STRIPE_MAX_RETRIES ELSE HUBSPOT_MAX_RETRIES

(* Response.ok *)
ok(status) == status \in 200..299

retryableAnyError(status) == status >= 400

(* const retryable = res.status === 429 || res.status >= 500 *)
retryable(status) == status = 429 \/ status >= 500

(* what the network can answer: fetch rejects, or a response with a status  *)
(* and a body that parses as JSON or does not                                *)
Responses ==
  [threw : {TRUE}, status : {0}, json : {FALSE}]
    \cup [threw : {FALSE}, status : {200, 400, 429, 500, 503}, json : BOOLEAN]

Fetching(client, key, attempt, statuses) ==
  [stage |-> "loop", client |-> client, key |-> key, attempt |-> attempt,
   statuses |-> statuses, outcome |-> "pending"]

FetchDone(outcome, statuses) ==
  [stage |-> "done", client |-> pure.client, key |-> pure.key, attempt |-> pure.attempt,
   statuses |-> statuses, outcome |-> outcome]

(* one pass of the loop body up to the sleep: the credential is read while  *)
(* the request is built, so a missing one throws before anything is sent    *)
HttpAttempt ==
  /\ pure.stage = "loop"
  /\ pure.attempt <= MaxRetriesOf(pure.client)
  /\ IF ~pure.key
       THEN pure' = FetchDone("threw", pure.statuses)
       ELSE \E res \in Responses :
              IF res.threw
                THEN pure' = FetchDone("threw", pure.statuses)
                ELSE \E statuses \in {Append(pure.statuses, res.status)} :
                       IF ok(res.status)
                         THEN pure' = FetchDone(IF res.json THEN "returned" ELSE "threw", statuses)
                         ELSE IF ~retryable(res.status) \/ pure.attempt = MaxRetriesOf(pure.client)
                                THEN pure' = FetchDone("threw", statuses)
                                ELSE pure' = [pure EXCEPT !.stage = "sleep", !.statuses = statuses]
  /\ UNCHANGED <<now, env, ledger, disk, chain, call, reader, report, cache, hist>>

(* await sleep(...); attempt++ and the loop test; the throw after the loop  *)
BackoffOver ==
  /\ pure.stage = "sleep"
  /\ IF pure.attempt + 1 <= MaxRetriesOf(pure.client)
       THEN pure' = [pure EXCEPT !.stage = "loop", !.attempt = pure.attempt + 1]
       ELSE pure' = FetchDone("threw", pure.statuses)
  /\ UNCHANGED <<now, env, ledger, disk, chain, call, reader, report, cache, hist>>

InitFetch ==
  /\ InitBase(LocalEnvs, {NoHist}, 1)
  /\ pure \in { Fetching(client, key, 0, <<>>) : client \in {"stripe", "hubspot"}, key \in BOOLEAN }

NextFetch == HttpAttempt \/ BackoffOver

SpecFetch == InitFetch /\ [][NextFetch]_vars

(* a pending fetch settles and a timer fires: the runtime's event loop      *)
SpecFetchFair == SpecFetch /\ WF_vars(HttpAttempt) /\ WF_vars(BackoffOver)

(* the number of HTTP attempts made so far *)
AttemptsMade == Len(pure.statuses)

(* C21: every call of stripeFetch makes at most 5 HTTP attempts and every   *)
(* call of hsFetch at most 7, and then returns or throws; another attempt   *)
(* is made only after a response with status 429 or >= 500, and any other   *)
(* non-OK status fails on the attempt that received it.                     *)
C21_BoundedRetries ==
  /\ [](AttemptsMade <= IF pure.client = "stripe" THEN 5 ELSE 7)
  /\ <>(pure.stage = "done" /\ pure.outcome \in {"returned", "threw"})
  /\ [][ /\ (pure.statuses # <<>> /\ Len(pure'.statuses) > Len(pure.statuses))
              => (LET last == pure.statuses[Len(pure.statuses)] IN last = 429 \/ last >= 500)
         /\ (Len(pure'.statuses) > Len(pure.statuses)
              => LET got == pure'.statuses[Len(pure'.statuses)] IN
                   (got \notin 200..299 /\ got # 429 /\ got < 500)
                     => (pure'.stage = "done" /\ pure'.outcome = "threw")) ]_vars

(* stripeFetch gave up after its fifth retryable response *)
C21_Witness ==
  /\ pure.stage = "done"
  /\ pure.client = "stripe"
  /\ pure.outcome = "threw"
  /\ pure.statuses = <<429, 500, 503, 429, 500>>

-----------------------------------------------------------------------------
(* mapWithConcurrency (Stripe client, lines 112-129; lib/hubspot.ts, lines   *)
(* 110-131).  A limit is a JavaScript number: the Stripe client's is         *)
(* Number(process.env.STRIPE_LINE_FETCH_CONCURRENCY || "12") (line 4), which *)
(* is NaN for a value that is not a number.  pure holds the items' count,    *)
(* the limit, the indexes whose fn rejects, the shared counter next, what    *)
(* each worker is doing, the array out, how often fn was invoked per index   *)
(* and how the call settled.  Indexes are counted from 1.                    *)

MaxItems == 3

NaN == [nan |-> TRUE]

Num(v) == [nan |-> FALSE, value |-> v]

Limits == {NaN} \cup { Num(v) : v \in {0, 1, 2, MaxItems + 1} }

(* Array.from({ length }, ...): ToLength of NaN is 0 *)
ToLength(x) == IF x.nan THEN 0 ELSE Max(0, x.value)

(* Math.max(1, Math.min(limit, items.length)): NaN if limit is NaN *)
safeLimit(limit, n) == IF limit.nan THEN NaN ELSE Num(Max(1, Min(limit.value, n)))

Hole == 0

(* what fn resolves to for the item at idx *)
ResultOf(idx) == 10 + idx

Awaiting(idx) == [at |-> "await", idx |-> idx]

WorkerReturned == [at |-> "returned", idx |-> 0]

WorkerThrew == [at |-> "threw", idx |-> 0]

InitMap ==
  /\ InitBase(LocalEnvs, {NoHist}, 1)
  /\ pure \in { [stage |-> "map", n |-> n, limit |-> limit, rejects |-> rejects] :
                  n \in 0..MaxItems, limit \in Limits, rejects \in SUBSET (1..MaxItems) }
  /\ pure.rejects \subseteq 1..pure.n

(* the call up to its await: with no item it returns []; otherwise every    *)
(* worker is started in turn and runs up to its first await, taking the     *)
(* index next and invoking fn on it (safeLimit <= items.length)             *)
MapCall ==
  /\ pure.stage = "map"
  /\ \E k \in {IF pure.n = 0 THEN 0 ELSE ToLength(safeLimit(pure.limit, pure.n))} :
       pure' = [stage |-> "running", n |-> pure.n, limit |-> pure.limit, rejects |-> pure.rejects,
                next |-> k + 1,
                workers |-> [w \in 1..k |-> Awaiting(w)],
                out |-> [i \in 1..pure.n |-> Hole],
                calls |-> [i \in 1..pure.n |-> IF i <= k THEN 1 ELSE 0],
                settled |-> IF k = 0 THEN "returned" ELSE "pending"]
  /\ UNCHANGED <<now, env, ledger, disk, chain, call, reader, report, cache, hist>>

(* the promise worker w awaits settles: a rejection ends the worker and     *)
(* rejects the call; a result is stored and the worker takes the next index *)
FnSettle(w) ==
  /\ pure.stage = "running"
  /\ w \in DOMAIN pure.workers
  /\ pure.workers[w].at = "await"
  /\ \E idx \in {pure.workers[w].idx} :
       IF idx \in pure.rejects
         THEN pure' = [pure EXCEPT !.workers[w] = WorkerThrew,
                                   !.settled = IF @ = "pending" THEN "rejected" ELSE @]
         ELSE IF pure.next > pure.n
                THEN \E ws \in {[pure.workers EXCEPT ![w] = WorkerReturned]} :
                       pure' = [pure EXCEPT !.out[idx] = ResultOf(idx),
                                            !.next = @ + 1,
                                            !.workers = ws,
                                            !.settled = IF @ = "pending" /\ \A v \in DOMAIN ws : ws[v].at = "returned"
                                                          THEN "returned" ELSE @]
                ELSE pure' = [pure EXCEPT !.out[idx] = ResultOf(idx),
                                          !.next = @ + 1,
                                          !.calls[pure.next] = @ + 1,
                                          !.workers[w] = Awaiting(pure.next)]
  /\ UNCHANGED <<now, env, ledger, disk, chain, call, reader, report, cache, hist>>

NextMap == MapCall \/ \E w \in 1..MaxItems : FnSettle(w)

SpecMap == InitMap /\ [][NextMap]_vars

(* the invocations of fn in flight *)
InFlight == Cardinality({ w \in DOMAIN pure.workers : pure.workers[w].at = "await" })

(* never more than the limit in flight, and no index invoked twice *)
BoundedAndAtMostOnce ==
  pure.stage = "running" =>
    /\ \A i \in 1..pure.n : pure.calls[i] <= 1
    /\ ~pure.limit.nan => InFlight <= Max(1, Min(pure.limit.value, pure.n))

(* C22: mapWithConcurrency(items, limit, fn) never has more than            *)
(* max(1, min(limit, items.length)) invocations of fn in flight at once,    *)
(* invokes fn exactly once for each index under every interleaving of its   *)
(* workers, and returns the results in input order (stated for the calls    *)
(* that return).                                                            *)
C22_EachIndexOnceInOrder ==
  /\ BoundedAndAtMostOnce
  /\ (pure.stage = "running" /\ pure.settled = "returned") =>
       \A i \in 1..pure.n : pure.calls[i] = 1 /\ pure.out[i] = ResultOf(i)

-----------------------------------------------------------------------------
(* One caller of ensureStripeSyncForRange step by step, on either backend,  *)
(* forced or not, the clock running: while the call is fetching or about to *)
(* write, the store still holds the snapshot the call has read.             *)

InitSteps ==
  /\ InitBase([kv : BOOLEAN, maxInvoices : 1..MaxBatch, autoSync : {"unset"}], {NoHist}, 1)
  /\ pure = NoPure

NextSteps ==
  \/ \E s \in Dates, e \in Dates, f \in BOOLEAN : EnsureCall(1, s, e, f)
  \/ EnsureRun(1)
  \/ EnsureRunFail(1)
  \/ FetchReturn(1)
  \/ FetchFail(1)
  \/ WriteTruncate(1)
  \/ WriteDone(1)
  \/ WriteFail(1)
  \/ Tick

SpecSteps == InitSteps /\ [][NextSteps]_vars

(* the call at hand was made for a range other than the stored active one *)
RangeChanged == ~sameActiveRange(readStore, call[1].clampedStartTs, call[1].endTs)

(* the first batch of the call's clamped range *)
FirstBatchOf(c) ==
  listInvoiceBatchWithLineItems(ledger,
    [createdGte |-> c.clampedStartTs \div MsPerSec, createdLte |-> c.endTs \div MsPerSec,
     maxInvoices |-> env.maxInvoices, startingAfter |-> NoCursor])

(* C23: when the clamped requested range differs from the stored active    *)
(* range, the refresh fetches with the created-time bounds of the new      *)
(* range and with startingAfter = null, and the snapshot it persists has   *)
(* the new active range, the cursor and exhausted flag of that first       *)
(* batch, and every previously stored item.                                *)
C23_RangeChangeRestarts ==
  /\ [](call[1].pc = "fetching" /\ RangeChanged =>
          BatchQuery(call[1].nextStore, env.maxInvoices) =
            [createdGte |-> call[1].clampedStartTs \div MsPerSec,
             createdLte |-> call[1].endTs \div MsPerSec,
             maxInvoices |-> env.maxInvoices, startingAfter |-> NoCursor])
  /\ [](call[1].pc = "writing" /\ RangeChanged =>
          LET batch == FirstBatchOf(call[1])
              next == call[1].nextStore
              before == readStore.itemsByKey
          IN /\ next.activeRangeStartTs = call[1].clampedStartTs
             /\ next.activeRangeEndTs = call[1].endTs
             /\ next.nextInvoiceCursor = IF batch.hasMore THEN batch.nextStartingAfter ELSE NoCursor
             /\ next.rangeExhausted = ~batch.hasMore
             /\ \A k \in DOMAIN before : k \in DOMAIN next.itemsByKey /\ next.itemsByKey[k] = before[k])
  /\ [][call[1].pc \in {"writing", "flushing"} /\ call'[1].result.reason = "refreshed"
          => disk' = Doc(call[1].nextStore)]_vars

(* a call for a new range, made while the stored range was part-way with   *)
(* items stored, is about to persist its first batch                       *)
C23_Witness ==
  /\ call[1].pc = "writing"
  /\ RangeChanged
  /\ readStore.nextInvoiceCursor # NoCursor
  /\ readStore.itemsByKey # NoItems
  /\ call[1].nextStore.nextInvoiceCursor # NoCursor
  /\ call[1].nextStore.nextInvoiceCursor # readStore.nextInvoiceCursor

(* the step in which the chained fn of the call runs up to its skip or its *)
(* ledger request (the key-value read failing aside)                       *)
RunsNow ==
  /\ call[1].pc = "queued"
  /\ call'[1].pc # "queued"
  /\ call'[1].result.reason # "KV command failed"

(* with force set a call never skips: it goes on to the ledger request *)
ForcedCallFetches ==
  [][RunsNow /\ call[1].force => call'[1].pc = "fetching"]_vars

(* C24: with force unset, if the snapshot is exhausted, the request is not *)
(* range-covered, and now - updatedAtTs <= SYNC_FRESHNESS_MS, the call     *)
(* returns synced=false, reason=fresh-cache with no ledger fetch; with     *)
(* force set it never returns fresh-cache or range-covered and always      *)
(* fetches.                                                                *)
C24_FreshExhaustedSnapshotSkips ==
  [][RunsNow =>
       /\ ( /\ ~call[1].force
            /\ readStore.rangeExhausted
            /\ ~coversRequestedRange(AdoptRange(readStore, call[1].clampedStartTs, call[1].endTs),
                                     call[1].clampedStartTs, call[1].endTs)
            /\ now - readStore.updatedAtTs <= SYNC_FRESHNESS_MS )
          => ( /\ call'[1].pc = "idle"
               /\ ~call'[1].result.synced
               /\ call'[1].result.reason = "fresh-cache"
               /\ call'[1].result.ledgerCalls = 0 )
       /\ call[1].force => call'[1].pc = "fetching"]_vars

(* no call ever answers fresh-cache *)
NeverFreshCache == \A p \in Callers : call[p].result.reason # "fresh-cache"

(* a failed ledger request leaves the store as it was *)
FailedFetchLeavesSnapshot ==
  [][call'[1].result.reason = "Stripe API error" => disk' = disk]_vars

(* C25: if the ledger fetch or the snapshot write fails during a refresh,  *)
(* ensureStripeSyncForRange rejects and the persisted snapshot (items,     *)
(* cursor, exhausted flag, active range, watermark, updatedAt) is exactly  *)
(* what it was before the call, so the next call for the same range        *)
(* resumes from the same cursor.                                           *)
C25_FailedRefreshLeavesSnapshot ==
  [][(call'[1].result.status = "rejected" /\ call'[1].result.ledgerCalls = 1)
       => readStore' = readStore]_vars

-----------------------------------------------------------------------------
(* Instants.  new Date(y, mo, day) is the local midnight that begins the   *)
(* day, so a date of the model stands for the first millisecond of its day *)
getTime(d) == d * DayMs

(* the months from the month of startMonth through the month of endMonth *)
MonthsBetween(startMonth, endMonth) ==
  (getFullYear(endMonth) * 12 + getMonth(endMonth))
    - (getFullYear(startMonth) * 12 + getMonth(startMonth)) + 1

(* each period starts on the first of its month at 00:00:00.000 *)
PeriodsStartMonths ==
  pure.stage = "aggregated" =>
    /\ Len(pure.monthlyPeriods) = MonthsBetween(pure.rangeStart, pure.rangeEnd)
    /\ \A i \in 1..Len(pure.monthlyPeriods) :
         /\ getDate(pure.monthlyPeriods[i].start) = 1
         /\ i > 1 => pure.monthlyPeriods[i].start = addMonths(pure.monthlyPeriods[i - 1].start, 1)

(* C26: buildMonthlyPeriods(startMonth, endMonth) returns exactly one      *)
(* period per calendar month from the month of startMonth through the      *)
(* month of endMonth, each starting on the first of the month at           *)
(* 00:00:00.000 and ending on the month's last day at 23:59:59.999, so     *)
(* consecutive periods are contiguous: each period's start is the instant  *)
(* after the previous period's end, with no gap and no overlap.            *)
C26_MonthlyPeriodsAreContiguous ==
  /\ PeriodsStartMonths
  /\ pure.stage = "aggregated" =>
       \A i \in 1..Len(pure.monthlyPeriods) :
         /\ getTime(pure.monthlyPeriods[i].end)
              = getTime(addMonths(pure.monthlyPeriods[i].start, 1)) - 1
         /\ i > 1 => getTime(pure.monthlyPeriods[i].start)
                       = getTime(pure.monthlyPeriods[i - 1].end) + 1

-----------------------------------------------------------------------------
(* The rows of generateStripeReport (Stripe report, lines 28-41, 56-61 and  *)
(* 102-176) for the synced items handed to it.  A synced item's period is   *)
(* in milliseconds; amounts and values are in cents.                        *)

(* round2 of a quotient of positive integers with an even denominator:     *)
(* Math.round(x * 100) / 100, in cents                                      *)
RoundDiv(num, den) == (num + den \div 2) \div den

(* 365.2425, in ten-thousandths *)
YearDays == 3652425

(* lines 56-61; durationDays is at least an hour, less than a millisecond  *)
(* of the model                                                             *)
annualizedAmountFromPeriod(amountMinor, start, endExclusive) ==
  IF endExclusive - start <= 0 THEN 0
  ELSE RoundDiv(amountMinor * YearDays * DayMs, 10000 * (endExclusive - start))

(* lines 28-41: dayStart and dayEnd of each day of the range *)
buildStripeDailyPeriods(start, end) ==
  [i \in 1..(end - start + 1) |->
     [dayStart |-> getTime(start + i - 1), dayEnd |-> getTime(start + i - 1) + DayMs - 1]]

STRIPE_TARGET_CURRENCY == "usd"

(* lines 102-118: the items that yield a row *)
YieldsRow(item) ==
  /\ (IF item.currency # "" THEN item.currency ELSE STRIPE_TARGET_CURRENCY) = STRIPE_TARGET_CURRENCY
  /\ item.amountMinor > 0
  /\ item.periodEndTs + 1 > item.periodStartTs
  /\ annualizedAmountFromPeriod(item.amountMinor, item.periodStartTs, item.periodEndTs + 1) > 0

(* lines 120-141 *)
stripeValuesByPeriod(grain, item, annualized, monthlyPeriods, aggregated, dailyPeriods) ==
  LET monthOf(key) == CHOOSE m \in 1..Len(monthlyPeriods) : monthlyPeriods[m].key = key
      valuesMonthly(mp) ==
        IF item.periodStartTs <= getTime(mp.end) /\ item.periodEndTs >= getTime(mp.end)
          THEN annualized ELSE 0
  IN IF grain = "monthly"
       THEN [m \in 1..Len(monthlyPeriods) |-> valuesMonthly(monthlyPeriods[m])]
     ELSE IF grain \in {"quarterly", "annually"}
       THEN [g \in 1..Len(aggregated) |->
               SumOf([j \in 1..Len(aggregated[g].members) |->
                        valuesMonthly(monthlyPeriods[monthOf(aggregated[g].members[j])])])]
     ELSE [d \in 1..Len(dailyPeriods) |->
             IF item.periodStartTs <= dailyPeriods[d].dayEnd /\ item.periodEndTs >= dailyPeriods[d].dayEnd
               THEN annualized ELSE 0]

(* lines 63-69, 78-85, 102-176: the periods and the rows of a valid range  *)
generateStripeRows(body, items) ==
  LET monthlyPeriods == buildMonthlyPeriods(firstOfMonth(body.startDate), firstOfMonth(body.endDate))
      dailyPeriods == buildStripeDailyPeriods(body.startDate, body.endDate)
      aggregated == aggregatePeriodsFromMonthly(monthlyPeriods, body.grain)
      kept == SelectSeq([i \in 1..Len(items) |-> i], LAMBDA i : YieldsRow(items[i]))
      annualized(i) == annualizedAmountFromPeriod(items[i].amountMinor, items[i].periodStartTs,
                                                  items[i].periodEndTs + 1)
      periods == IF body.grain = "daily" THEN Len(dailyPeriods) ELSE Len(aggregated)
      rows == [r \in 1..Len(kept) |->
                 [lineItemId |-> kept[r], valueUsd |-> annualized(kept[r]),
                  valuesByPeriod |-> stripeValuesByPeriod(body.grain, items[kept[r]], annualized(kept[r]),
                                                          monthlyPeriods, aggregated, dailyPeriods)]]
  IN [error |-> "", periods |-> periods, rows |-> rows,
      totalsByPeriod |-> totalsByPeriod(periods, rows)]

SyncedItemOf(startTs, endTs, amountMinor, currency) ==
  [periodStartTs |-> startTs, periodEndTs |-> endTs, amountMinor |-> amountMinor,
   currency |-> currency]

(* periods that begin at a midnight or during a month's last day, and end  *)
(* at the end of a day or during a month's last day                        *)
SyncedItems ==
  { SyncedItemOf(s, e, 10, "usd") :
      s \in {getTime(Jan1), getTime(Jan2) + 1, getTime(Feb1)},
      e \in {getTime(Feb1) - 1, getTime(Feb1 + 1), getTime(Mar1) - 1, getTime(Mar1 + 1) + 1} }
    \cup {SyncedItemOf(getTime(Jan1), getTime(Mar1) - 1, 0, "usd"),
          SyncedItemOf(getTime(Jan1), getTime(Mar1) - 1, 10, "eur"),
          SyncedItemOf(getTime(Jan1), getTime(Mar1) - 1, 15, "")}

InitStripeRows ==
  /\ InitBase(LocalEnvs, {NoHist}, 1)
  /\ pure \in [stage : {"items"},
               body : { Body(Jan1, AprEnd, "arr", g, FALSE) : g \in CrmGrains },
               items : {<<>>} \cup { <<a>> : a \in SyncedItems }
                         \cup { <<a, b>> : a \in SyncedItems, b \in SyncedItems }]

GenerateStripeRows ==
  /\ pure.stage = "items"
  /\ pure' = [stage |-> "stripeReport", body |-> pure.body, items |-> pure.items,
              out |-> generateStripeRows(pure.body, pure.items)]
  /\ UNCHANGED <<now, env, ledger, disk, chain, call, reader, report, cache, hist>>

(* both reports, each over its own inputs *)
InitValues == InitRows \/ InitStripeRows

NextValues == GenerateReport \/ GenerateStripeRows

SpecValues == InitValues /\ [][NextValues]_vars

(* the last instant of a monthly period's month *)
LastInstant(mp) == getTime(addMonths(mp.start, 1)) - 1

(* the window of row r, in instants: of the CRM item, or the Stripe period *)
WindowOfRow(r) ==
  IF pure.stage = "report"
    THEN LET w == computeWindowForLineItem(pure.items[pure.out.rows[r].lineItemId])
         IN [ok |-> w.ok, start |-> getTime(w.start), end |-> getTime(w.end)]
    ELSE LET item == pure.items[pure.out.rows[r].lineItemId]
         IN [ok |-> TRUE, start |-> item.periodStartTs, end |-> item.periodEndTs]

ArrReported ==
  /\ pure.stage \in {"report", "stripeReport"}
  /\ pure.out.error = ""
  /\ pure.body.mode = "arr"

(* with daily grain a row has its value on the days whose first instant    *)
(* its window covers                                                       *)
DailyTestsTheDay ==
  (ArrReported /\ pure.body.grain = "daily") =>
    \A r \in 1..Len(pure.out.rows) : \A d \in 1..Len(pure.out.rows[r].valuesByPeriod) :
      pure.out.rows[r].valuesByPeriod[d] =
        IF /\ WindowOfRow(r).ok
           /\ covers(WindowOfRow(r), getTime(pure.body.startDate + d - 1))
          THEN pure.out.rows[r].valueUsd ELSE 0

(* C27: in arr (booked) mode, a row's value for a monthly period is the    *)
(* row's converted annualized value if window.start <= period end <=       *)
(* window.end and 0 otherwise, where the period end is the last instant of *)
(* the month's last day; for daily grain the tested instant is the day     *)
(* itself, in the HubSpot report and in the Stripe report alike.           *)
C27_ArrValueIsCoverageOfPeriodEnd ==
  /\ DailyTestsTheDay
  /\ (ArrReported /\ pure.body.grain = "monthly") =>
       \A r \in 1..Len(pure.out.rows) : \A m \in 1..Len(pure.out.rows[r].valuesByPeriod) :
         pure.out.rows[r].valuesByPeriod[m] =
           IF /\ WindowOfRow(r).ok
              /\ covers(WindowOfRow(r), LastInstant(MonthsOf(pure.body)[m]))
             THEN pure.out.rows[r].valueUsd ELSE 0

(* both reports by quarters and by years *)
InitSums ==
  \/ InitCrm({"closedwon"}, { b \in ValidBodies : b.grain \in {"quarterly", "annually"} },
             { d \in Deals : d[1].closedate \in {Jan2, Mar1} /\ d[1].deal_currency_code = "" },
             { l \in ItemLists : Len(l) = 2 => l[2].hs_recurring_billing_start_date = Feb1 },
             {Answering})
  \/ InitStripeRows /\ pure.body.grain \in {"quarterly", "annually"}

SpecSums == InitSums /\ [][NextValues]_vars

(* a report by quarters or by years, with its rows *)
AggregatedReported ==
  /\ pure.stage \in {"report", "stripeReport"}
  /\ pure.out.error = ""
  /\ pure.body.grain \in {"quarterly", "annually"}

(* the report of the same request by months *)
MonthlyOut ==
  IF pure.stage = "report"
    THEN generateReport(pure.includedStage, [pure.body EXCEPT !.grain = "monthly"],
                        pure.deals, pure.items, pure.service)
    ELSE generateStripeRows([pure.body EXCEPT !.grain = "monthly"], pure.items)

(* the positions, among the months of the range, of the members of group g *)
MembersOf(g) ==
  LET months == MonthsOf(pure.body)
      group == aggregatePeriodsFromMonthly(months, pure.body.grain)[g]
  IN [j \in 1..Len(group.members) |->
        CHOOSE m \in 1..Len(months) : months[m].key = group.members[j]]

(* C28: for quarterly and annual grain, each row's value for an aggregated *)
(* period equals the rounded sum of that row's monthly values over the     *)
(* period's members, so for every row, and for totalsByPeriod, the sum     *)
(* over all quarterly (or annual) periods of a range equals the sum over   *)
(* all monthly periods of the same range.                                  *)
C28_AggregatesAreSumsOfMonths ==
  AggregatedReported =>
    /\ Len(pure.out.rows) = Len(MonthlyOut.rows)
    /\ \A r \in 1..Len(pure.out.rows) :
         /\ \A g \in 1..pure.out.periods :
              pure.out.rows[r].valuesByPeriod[g] =
                SumOf([j \in 1..Len(MembersOf(g)) |->
                         MonthlyOut.rows[r].valuesByPeriod[MembersOf(g)[j]]])
         /\ SumOf(pure.out.rows[r].valuesByPeriod) = SumOf(MonthlyOut.rows[r].valuesByPeriod)
    /\ SumOf(pure.out.totalsByPeriod) = SumOf(MonthlyOut.totalsByPeriod)
    /\ SumOf(pure.out.totalsByPeriod)
         = SumOf([r \in 1..Len(MonthlyOut.rows) |-> SumOf(MonthlyOut.rows[r].valuesByPeriod)])

(* a quarterly report of two rows: one has its value in two months of the  *)
(* first quarter, and the quarter's total is the sum of both rows          *)
C28_Witness ==
  /\ AggregatedReported
  /\ pure.body.grain = "quarterly"
  /\ Len(pure.out.rows) = 2
  /\ pure.out.rows[1].valueUsd > 0
  /\ pure.out.rows[1].valuesByPeriod[1] = 2 * pure.out.rows[1].valueUsd
  /\ pure.out.rows[2].valuesByPeriod[1] > 0
  /\ pure.out.totalsByPeriod[1]
       = pure.out.rows[1].valuesByPeriod[1] + pure.out.rows[2].valuesByPeriod[1]

-----------------------------------------------------------------------------
(* generateCurrentDealMetrics (lib/report.ts, lines 393-435) for the       *)
(* stage's deal: the two daily reports of the as-of day and the sums of    *)
(* their rows for that day                                                 *)

(* lines 393-400, for the one deal and the one period of the report *)
sumByDealForPeriod(out) ==
  SumOf([r \in 1..Len(out.rows) |-> out.rows[r].valuesByPeriod[1]])

(* lines 402-435; mustEnv and the validation of the reports pass *)
generateCurrentDealMetrics(includedStage, asOf, deals, items, service) ==
  CHOOSE metrics \in
    { [error |-> IF arrReport.error # "" THEN arrReport.error ELSE carrReport.error,
       carrReport |-> carrReport,
       currentArr |-> sumByDealForPeriod(arrReport),
       currentCarr |-> sumByDealForPeriod(carrReport)] :
        arrReport \in {generateReport(includedStage, Body(asOf, asOf, "arr", "daily", FALSE),
                                      deals, items, service)},
        carrReport \in {generateReport(includedStage, Body(asOf, asOf, "contracted", "daily", TRUE),
                                       deals, items, service)} } : TRUE

AsOfDates == {Jan1, Jan2, Feb1, Feb1 + 1, Mar1}

InitMetrics ==
  /\ InitBase(LocalEnvs, {NoHist}, 1)
  /\ pure \in [stage : {"asOf"}, includedStage : {"closedwon"}, asOfDate : AsOfDates,
               body : {Body(Jan1, Jan1, "contracted", "daily", TRUE)},
               deals : Deals, items : ItemLists \ {<<>>}, service : {Answering}]

CurrentDealMetrics ==
  /\ pure.stage = "asOf"
  /\ pure' = [pure EXCEPT !.stage = "metrics",
                          !.body = Body(pure.asOfDate, pure.asOfDate, "contracted", "daily", TRUE)]
               @@ [out |-> generateCurrentDealMetrics(pure.includedStage, pure.asOfDate, pure.deals,
                                                       pure.items, pure.service)]
  /\ UNCHANGED <<now, env, ledger, disk, chain, call, reader, report, cache, hist>>

SpecMetrics == InitMetrics /\ [][CurrentDealMetrics]_vars

(* the as-of day lies in the gap of item e: from the close day of the deal *)
(* to the day before e, its earliest recurring item, starts                *)
InGap(e) ==
  /\ pure.stage = "metrics"
  /\ pure.out.error = ""
  /\ Carries(e)
  /\ pure.out.carrReport.rows[e].valueUsd > 0
  /\ pure.asOfDate >= pure.deals[1].closedate
  /\ pure.asOfDate < computeWindowForLineItem(pure.items[e]).start

(* both metrics are the straight coverage of the as-of day *)
MetricsAreEqual == pure.stage = "metrics" => pure.out.currentCarr = pure.out.currentArr

(* C29: in contracted mode with daily grain, generateReport attributes the *)
(* value of the earliest recurring line item of a new-business deal whose  *)
(* close date precedes that item's start to every day from the close day   *)
(* through the earliest start day; hence generateCurrentDealMetrics        *)
(* reports currentCarr greater than currentArr for such a deal on an       *)
(* as-of date inside that gap.                                             *)
C29_DailyCarryRaisesCurrentCarr ==
  \A e \in 1..Len(pure.items) : InGap(e) =>
    /\ pure.out.carrReport.rows[e].valuesByPeriod[1] = pure.out.carrReport.rows[e].valueUsd
    /\ pure.out.currentCarr > pure.out.currentArr

-----------------------------------------------------------------------------
(* computeWindowForLineItem on its own, over line-item properties as the   *)
(* CRM sends them: a date that parses or not, a term that is a number, a   *)
(* text that is no number, or absent                                       *)

(* lines 29-32: Number(v), and 0 for NaN; an absent property is NaN too    *)
toNumber(v) == IF v.nan THEN 0 ELSE v.value

RawTerms == {NaN} \cup { Num(v) : v \in {-1, 0, 1, 2, 13} }

RawStarts == {BadDate, Jan2, Feb1}

RawEnds == {BadDate, Jan1, Mar1}

InitWindow ==
  /\ InitBase(LocalEnvs, {NoHist}, 1)
  /\ pure \in [stage : {"props"},
               rs : RawStarts, ps : RawStarts, re : RawEnds, pe : RawEnds, term : RawTerms]

ComputeWindow ==
  /\ pure.stage = "props"
  /\ pure' = [pure EXCEPT !.stage = "window"]
               @@ [w |-> computeWindowForLineItem(
                           [LineItem(pure.rs, pure.ps, pure.re, toNumber(pure.term), 0, 0, "")
                              EXCEPT !.hs_billing_period_end_date = pure.pe])]
  /\ UNCHANGED <<now, env, ledger, disk, chain, call, reader, report, cache, hist>>

SpecWindow == InitWindow /\ [][ComputeWindow]_vars

(* the term is a number other than 0 *)
TermAvailable == ~pure.term.nan /\ pure.term.value # 0

(* C30: computeWindowForLineItem returns no window when neither start      *)
(* field parses; otherwise start is the recurring-billing start, else the  *)
(* billing-period start, and end is the first available of:                *)
(* recurring-billing end, billing-period end, start plus termMonths months *)
(* minus one day; only when none of the three is available (term absent,   *)
(* zero or non-numeric) is end the far-future sentinel with                *)
(* endIsOpenEnded = true.                                                  *)
C30_WindowOfLineItem ==
  pure.stage = "window" =>
    IF pure.rs < 1 /\ pure.ps < 1 THEN ~pure.w.ok
    ELSE /\ pure.w.ok
         /\ pure.w.start = (IF pure.rs >= 1 THEN pure.rs ELSE pure.ps)
         /\ pure.w.end = (IF pure.re >= 1 THEN pure.re
                          ELSE IF pure.pe >= 1 THEN pure.pe
                          ELSE IF TermAvailable
                            THEN pure.w.start + pure.term.value * DaysPerMonth - 1
                          ELSE (OpenEndYear * 12) * DaysPerMonth)
         /\ pure.w.endIsOpenEnded = (pure.re < 1 /\ pure.pe < 1 /\ ~TermAvailable)

(* a window that starts at the billing-period start and ends by the term,  *)
(* thirteen months less a day later                                        *)
C30_Witness ==
  /\ pure.stage = "window"
  /\ pure.rs = BadDate /\ pure.ps = Feb1
  /\ pure.re = BadDate /\ pure.pe = BadDate
  /\ pure.term = Num(13)
  /\ pure.w.ok /\ ~pure.w.endIsOpenEnded
  /\ pure.w.start = Feb1
  /\ pure.w.end = NewDate(ReportYear + 1, 1, DaysPerMonth)

----------------------------------------------------------------------------
(* The billing-frequency multiplier (lib/logic.ts, lines 117-144) *)

InitFrequency ==
  /\ InitBase(LocalEnvs, {NoHist}, 1)
  /\ pure \in [stage : {"request"}, label : FrequencyLabels, amount : {0, 1001},
               net_price : {0, 500}]

(* computeCalculatedArrForLineItem on a line item with a closed window *)
ComputeArr ==
  /\ pure.stage = "request"
  /\ pure' = [stage |-> "done", label |-> pure.label, amount |-> pure.amount,
              net_price |-> pure.net_price,
              mult |-> frequencyMultiplier(pure.label),
              arr |-> computeCalculatedArrForLineItem(
                        LineItem(Feb1, BadDate, Mar1, 0, pure.amount, pure.net_price,
                                 pure.label))]
  /\ UNCHANGED <<now, env, ledger, disk, chain, call, reader, report, cache, hist>>

SpecFrequency == InitFrequency /\ [][ComputeArr]_vars

(* what each label denotes *)
OneTimeLabels == {"one_time", "One-Time"}
SixMonthLabels ==
  {"per_six_months", "every_six_months", "every_6_months", "semiannually", "half_yearly"}
ThreeMonthLabels == {"per_quarter", "quarterly", "every_three_months", "every_3_months"}
MonthlyLabels == {"monthly", " Monthly "}
AnnualLabels == {"annually", "yearly", "per_year"}

Denoted(label) ==
  IF label \in OneTimeLabels THEN 0
  ELSE IF label \in SixMonthLabels THEN 2
  ELSE IF label \in ThreeMonthLabels THEN 4
  ELSE IF label \in MonthlyLabels THEN 12
  ELSE IF label \in AnnualLabels THEN 1
  ELSE 0

(* the labels whose count is a digit, and the labels of periods longer than a year *)
DigitOrLongerLabels == {"every_6_months", "every_3_months", "per_two_years", "per_three_years"}

(* on every other label the multiplier is the denoted one, and the annualized
   amount of the item is the amount (else the net price) times it *)
MultiplierOfWordLabels ==
  (pure.stage = "done" /\ pure.label \notin DigitOrLongerLabels) =>
    /\ pure.mult = Denoted(pure.label)
    /\ pure.arr = (IF pure.amount # 0 THEN pure.amount ELSE pure.net_price) * pure.mult

(* C31: frequencyMultiplier gives 0 for one-time labels, 2 for six-month labels,
   4 for three-month labels, 12 for monthly labels, 1 for annual labels and 0 for
   every label that denotes none of these periods, with the count of months
   spelled out or written as a digit. *)
C31_MultiplierOfLabel ==
  pure.stage = "done" => pure.mult = Denoted(pure.label)

----------------------------------------------------------------------------
(* The watermark-based sync store (lib/stripeSyncStore.ts) *)

(* Stripe client, lines 165-199: every invoice created within the query's  *)
(* bounds, all pages; a bound of 0 is not sent                              *)
listInvoicesWithLineItems(led, q) ==
  SelectSeq(led, LAMBDA inv :
    /\ (q.createdGte # 0 => inv.created >= q.createdGte)
    /\ (q.createdLte # 0 => inv.created <= q.createdLte))

(* lines 114-118 *)
watermarkCovers(store, clampedStartTs, endTs) ==
  /\ store.lastSyncStartTs > 0
  /\ store.lastSyncEndTs > 0
  /\ store.lastSyncStartTs <= clampedStartTs
  /\ store.lastSyncEndTs >= endTs

(* lines 144-170 *)
nextStoreOf(store, invoices, clampedStartTs, endTs, t) ==
  [store EXCEPT
     !.updatedAtTs = t,
     !.lastSyncStartTs = IF store.lastSyncStartTs > 0
                           THEN Min(store.lastSyncStartTs, clampedStartTs)
                           ELSE clampedStartTs,
     !.lastSyncEndTs = Max(store.lastSyncEndTs, endTs),
     !.itemsByKey = MergeBatch(store.itemsByKey, invoices)]

(* the call's answer, kept with the range it asked for *)
ReturnFor(p, clampedStartTs, endTs, result) ==
  call' = [call EXCEPT ![p] = [IdleCall(result) EXCEPT !.clampedStartTs = clampedStartTs,
                                                       !.endTs = endTs]]

(* lines 108-154, as one step of a single caller: the request to the       *)
(* ledger fails, or the write fails (the file truncated or untouched), or   *)
(* the snapshot is written                                                  *)
EnsureSyncWatermark(p, startDate, endDate, force) ==
  /\ call[p].pc = "idle"
  /\ chain = <<>>
  /\ UNCHANGED <<env, ledger, chain, hist, others>>
  /\ \E range \in {parseRange(startDate, endDate)} :
       IF range.error # ""
         THEN /\ Return(p, Invalid(range.error))
              /\ UNCHANGED <<now, disk>>
       ELSE
       \E clampedStartTs \in {clampHistoryStartTs(range.startTs, now)} :
       \E store \in {readStoreLocal("ok", disk)} :
         IF ~force /\ watermarkCovers(store, clampedStartTs, range.endTs)
           THEN /\ ReturnFor(p, clampedStartTs, range.endTs, Skipped("range-covered"))
                /\ UNCHANGED <<now, disk>>
         ELSE IF isFresh(store, force, now)
                 /\ store.lastSyncStartTs > 0 /\ store.lastSyncEndTs > 0
           THEN /\ ReturnFor(p, clampedStartTs, range.endTs, Skipped("fresh-cache"))
                /\ UNCHANGED <<now, disk>>
         ELSE
           \E invoices \in {listInvoicesWithLineItems(ledger,
                              [createdGte |-> clampedStartTs \div MsPerSec,
                               createdLte |-> range.endTs \div MsPerSec])} :
             \/ /\ ReturnFor(p, clampedStartTs, range.endTs, Rejected("Stripe API error"))
                /\ UNCHANGED <<now, disk>>
             \/ /\ ReturnFor(p, clampedStartTs, range.endTs, Rejected("write failed"))
                /\ disk' \in {disk, Corrupt}
                /\ UNCHANGED now
             \/ \E dt \in 0..1 :
                  /\ now + dt <= StartNow + MaxTicks
                  /\ now' = now + dt
                  /\ disk' = Doc(nextStoreOf(store, invoices, clampedStartTs,
                                             range.endTs, now + dt))
                  /\ ReturnFor(p, clampedStartTs, range.endTs,
                               [Refreshed(NoBatch) EXCEPT !.syncedInvoices = Len(invoices),
                                                          !.hasMore = "absent"])

NextWatermark ==
  \/ \E s \in Dates, e \in Dates, f \in BOOLEAN : EnsureSyncWatermark(1, s, e, f)
  \/ Tick

SpecWatermark == Init /\ [][NextWatermark]_vars

(* every line of the invoice that the merge keeps is in the snapshot *)
Holds(store, inv) ==
  \A i \in 1..Len(inv.lines) :
    ValidLine(inv.lines[i]) => KeyOf(inv.id, Trim(inv.lines[i].id)) \in DOMAIN store.itemsByKey

CreatedWithin(inv, startTs, endTs) ==
  inv.created * MsPerSec >= startTs /\ inv.created * MsPerSec <= endTs

HoldsRange(store, startTs, endTs) ==
  \A i \in 1..Len(ledger) :
    CreatedWithin(ledger[i], startTs, endTs) => Holds(store, ledger[i])

SkippedAs(reasons) ==
  /\ call[1].pc = "idle"
  /\ call[1].result.status = "ok"
  /\ ~call[1].result.synced
  /\ call[1].result.reason \in reasons

(* a call answered range-covered finds the invoices of its range merged *)
RangeCoveredHoldsRange ==
  SkippedAs({"range-covered"}) =>
    HoldsRange(readStore, call[1].clampedStartTs, call[1].endTs)

(* a call that refreshed has merged the invoices of its range *)
RefreshedHoldsRange ==
  (call[1].pc = "idle" /\ call[1].result.synced) =>
    HoldsRange(readStore, call[1].clampedStartTs, call[1].endTs)

(* C32: in the watermark-based store, when ensureStripeSyncForRange returns *)
(* synced = false (range-covered or fresh-cache), every invoice created     *)
(* within the requested clamped range has been fetched and merged into      *)
(* itemsByKey.                                                              *)
C32_SkippedCallHoldsRange ==
  SkippedAs({"range-covered", "fresh-cache"}) =>
    HoldsRange(readStore, call[1].clampedStartTs, call[1].endTs)

----------------------------------------------------------------------------
(* The response cache and the sync store *)

(* a report call for the dates returns without syncing, from the cache or computed *)
ReportReturned(s, e) ==
  /\ GenerateCall(s, e, "monthly")
  /\ report'.pc = "idle"
  /\ report'.answer.status = "ok"

(* a report call returns a report computed from the snapshot *)
ComputedReportHasRows ==
  [][\A s \in {0, 1}, e \in {0, MaxDay} :
       (ReportReturned(s, e) /\ report'.served = "computed") =>
         report'.answer.rows = ReportRows(readStore, parseRange(s, e).startTs,
                                          parseRange(s, e).endTs)]_vars

(* C33: after ensureStripeSyncForRange has persisted items whose period     *)
(* overlaps range R, the next generateStripeReport call for R returns rows  *)
(* for those items, also when an earlier report for R and the same grain    *)
(* was generated less than the cache TTL before.                            *)
C33_ReportAfterSyncHasRows ==
  [][\A s \in {0, 1}, e \in {0, MaxDay} :
       ReportReturned(s, e) =>
         ReportRows(readStore, parseRange(s, e).startTs, parseRange(s, e).endTs)
           \subseteq report'.answer.rows]_vars

----------------------------------------------------------------------------
(* The memo of monthly rates (lib/fx.ts, FX_MONTHLY_CACHE) *)

(* lines 31-36: the memo's key, YYYY-MM|FROM|TO *)
fxKey(from, to, d) == <<formatPeriodKeyMonthly(firstOfMonth(d)), from, to>>

Currencies == {"", "EUR", "GBP", FX_TARGET_CURRENCY}
CloseDates == {BadDate, Jan2, Feb1}

InitMemo ==
  /\ InitBase(LocalEnvs, {NoHist}, 1)
  /\ pure = [stage |-> "memo", memo |-> NoEntries, key |-> <<>>,
             called |-> FALSE, threw |-> FALSE, rate |-> 0]

Answered(memo, key, called, threw, rate) ==
  pure' = [stage |-> "memo", memo |-> memo, key |-> key,
           called |-> called, threw |-> threw, rate |-> rate]

(* lines 19-46: one call of getMonthlyAverageFxRateForCloseMonth; service  *)
(* is how the request to the rate service would end                        *)
GetRate(fromCurrency, toCurrency, closeDate, service) ==
  /\ pure.stage = "memo"
  /\ UNCHANGED <<now, env, ledger, disk, chain, call, reader, report, cache, hist>>
  /\ \E d \in {IF closeDate # BadDate THEN closeDate ELSE DayOf(now)} :
     \E key \in {fxKey(fromCurrency, toCurrency, d)} :
       IF fromCurrency = "" \/ toCurrency = ""
         THEN Answered(pure.memo, <<>>, FALSE, FALSE, 0)
       ELSE IF fromCurrency = toCurrency
         THEN Answered(pure.memo, <<>>, FALSE, FALSE, RateScale)
       ELSE IF key \in DOMAIN pure.memo
         THEN Answered(pure.memo, key, FALSE, FALSE, pure.memo[key].rate)
       ELSE
         \E avg \in {fetchFrankfurterMonthlyAverage(service)} :
           IF avg.threw
             THEN Answered(pure.memo, key, TRUE, TRUE, 0)
             ELSE Answered(Put(pure.memo, key, [rate |-> avg.rate, dateUsed |-> key[1]]),
                           key, TRUE, FALSE, avg.rate)

NextMemo ==
  \E from \in Currencies, to \in {"", FX_TARGET_CURRENCY}, c \in CloseDates, s \in Services :
    GetRate(from, to, c, s)

SpecMemo == InitMemo /\ [][NextMemo]_vars

(* the step is a call that looks its key up in the memo *)
LooksUp == pure'.key # <<>>

(* a request that is rejected stores nothing, and a key that holds a rate is *)
(* answered with it without a request                                        *)
MemoAnswersStoredRate ==
  [][LooksUp =>
       /\ pure'.key \in DOMAIN pure.memo =>
            /\ ~pure'.called
            /\ pure'.rate = pure.memo[pure'.key].rate
            /\ pure'.memo = pure.memo
       /\ pure'.threw => pure'.memo = pure.memo]_vars

MemoHoldsNoFailure == \A key \in DOMAIN pure.memo : pure.memo[key].rate > 0

(* the last call for the key asked the service and got no rate *)
FailedFor(key) == pure.key = key /\ pure.called /\ pure.rate = 0

(* C34: every entry of FX_MONTHLY_CACHE has rate > 0, so after a failed or  *)
(* empty rate fetch for (yearMonth, from, to) a later call for the same key *)
(* calls the rate service again, while after a successful fetch later calls *)
(* return the stored rate without calling it.                               *)
C34_MemoHoldsNoFailure ==
  /\ []MemoHoldsNoFailure
  /\ [][LooksUp =>
          /\ FailedFor(pure'.key) => pure'.called
          /\ (pure'.key \in DOMAIN pure.memo /\ pure.memo[pure'.key].rate > 0) =>
               /\ ~pure'.called
               /\ pure'.rate = pure.memo[pure'.key].rate]_vars

(* the retry alone: a call for a key whose last fetch gave no rate asks again *)
FailedFetchIsRetried ==
  [][(LooksUp /\ FailedFor(pure'.key)) => pure'.called]_vars

----------------------------------------------------------------------------
(* The shape of a report *)

(* a report was returned (the call did not throw) *)
Returned == pure.stage = "report" /\ pure.out.error = ""

(* every row has one value per period *)
RowsHaveThePeriods ==
  Returned =>
    \A r \in 1..Len(pure.out.rows) : Len(pure.out.rows[r].valuesByPeriod) = pure.out.periods

(* a report with at least one row has one total per period *)
ReportWithRowsHasTotals ==
  (Returned /\ pure.out.rows # <<>>) => Len(pure.out.totalsByPeriod) = pure.out.periods

(* C35: every report returned by generateReport and generateStripeReport    *)
(* has exactly one totalsByPeriod entry for each entry of periods, in the    *)
(* same order, and every row's valuesByPeriod has exactly the keys of        *)
(* periods, for every grain and also when no deal is in the stage or no deal *)
(* passes the close-date filter.                                             *)
C35_TotalsAndValuesFollowPeriods ==
  Returned =>
    /\ Len(pure.out.totalsByPeriod) = pure.out.periods
    /\ \A r \in 1..Len(pure.out.rows) : Len(pure.out.rows[r].valuesByPeriod) = pure.out.periods

----------------------------------------------------------------------------
(* What an exhausted range holds *)

(* the keys of the ledger's line items that a merge keeps and whose billing *)
(* period intersects the range, those of the invoices in created alone or   *)
(* of every invoice                                                         *)
LedgerKeys(startTs, endTs, anyCreated) ==
  UNION { { KeyOf(ledger[i].id, Trim(ledger[i].lines[j].id)) :
              j \in { l \in 1..Len(ledger[i].lines) :
                        /\ ValidLine(ledger[i].lines[l])
                        /\ overlaps(SyncedItem(ledger[i], ledger[i].lines[l]).periodStartTs,
                                    SyncedItem(ledger[i], ledger[i].lines[l]).periodEndTs,
                                    startTs, endTs) } } :
          i \in { n \in 1..Len(ledger) :
                    anyCreated \/ CreatedWithin(ledger[n], startTs, endTs) } }

(* the snapshot is exhausted for the range of the two dates *)
ExhaustedFor(s, e) ==
  /\ s <= e
  /\ readStore.rangeExhausted
  /\ sameActiveRange(readStore, startOfDayTs(s), endOfDayTs(e))

(* the query returns the overlapping items of the invoices created in the range *)
ExhaustedRangeHoldsItsInvoices ==
  \A s \in 1..MaxDay, e \in 1..MaxDay :
    ExhaustedFor(s, e) =>
      LedgerKeys(startOfDayTs(s), endOfDayTs(e), FALSE)
        \subseteq getSyncedStripeLineItemsForRange(readStore, startOfDayTs(s), endOfDayTs(e)).keys

(* C36: once the cursor-based store is exhausted for range R,               *)
(* getSyncedStripeLineItemsForRange(R) returns every ledger line item whose *)
(* billing period intersects R, including line items of invoices that were  *)
(* created before R's start or after R's end.                               *)
C36_ExhaustedRangeHoldsOverlappingItems ==
  \A s \in 1..MaxDay, e \in 1..MaxDay :
    ExhaustedFor(s, e) =>
      LedgerKeys(startOfDayTs(s), endOfDayTs(e), TRUE)
        \subseteq getSyncedStripeLineItemsForRange(readStore, startOfDayTs(s), endOfDayTs(e)).keys

----------------------------------------------------------------------------
(* One range asked for again and again (force unset) *)

(* caller 1 asks for day 1 to MaxDay; caller 2 asks for other ranges *)
OtherRanges == { r \in (1..MaxDay) \X (1..MaxDay) : r[1] <= r[2] /\ r # <<1, MaxDay>> }

InitAgain == InitBase(LocalEnvs, {NoHist}, 2) /\ pure = NoPure

(* the calls of this section end well: the ledger answers, the write succeeds *)
CallAgain == EnsureSync(1, 1, MaxDay, FALSE) /\ call'[1].result.status = "ok"
CallOther ==
  \E r \in OtherRanges : EnsureSync(2, r[1], r[2], FALSE) /\ call'[2].result.status = "ok"

NextAgain == CallAgain \/ CallOther \/ Tick
NextAlone == CallAgain \/ Tick

(* the range is asked for again and again *)
SpecAgain == InitAgain /\ [][NextAgain]_vars /\ WF_vars(CallAgain)

(* ... with no call for another range in between *)
SpecAlone == InitAgain /\ [][NextAlone]_vars /\ WF_vars(CallAgain)

(* the snapshot is exhausted for day 1 to MaxDay as clamped now, and holds *)
(* the line items of the invoices created in it                            *)
RangeComplete ==
  /\ readStore.rangeExhausted
  /\ sameActiveRange(readStore, clampHistoryStartTs(startOfDayTs(1), now), endOfDayTs(MaxDay))
  /\ LedgerKeys(readStore.activeRangeStartTs, readStore.activeRangeEndTs, FALSE)
       \subseteq DOMAIN readStore.itemsByKey

(* C37: if ensureStripeSyncForRange is called again and again with force    *)
(* unset for one fixed range over a finite ledger with successful fetches,  *)
(* the range eventually becomes exhausted and its items complete, also when *)
(* calls for other ranges made by other callers are interleaved.            *)
C37_RepeatedCallsExhaustRange == <>RangeComplete

(* without calls for other ranges the range is completed *)
AloneCompletes == <>[]RangeComplete

----------------------------------------------------------------------------
(* What a call leaves of the snapshot *)

(* one caller step by step; "call": persisted is the snapshot as it was *)
(* when the call at hand, or the last call, was made                     *)
InitFrame ==
  /\ InitBase([kv : BOOLEAN, maxInvoices : 1..MaxBatch, autoSync : {"unset"}],
              {[NoHist EXCEPT !.obs = "call"]}, 1)
  /\ pure = NoPure

SpecFrame == InitFrame /\ [][NextSteps]_vars

(* the call has returned range-covered or fresh-cache *)
ReturnedSkipped ==
  /\ call[1].pc = "idle"
  /\ call[1].result.status = "ok"
  /\ call[1].result.reason \in {"range-covered", "fresh-cache"}

(* a call that is skipped leaves the snapshot as it was *)
SkippedCallWritesNothing == ReturnedSkipped => readStore = hist.persisted

(* the call has returned, with whatever outcome *)
ReturnedAny == call[1].pc = "idle" /\ call[1].result.status # "none"

KeysKept == DOMAIN hist.persisted.itemsByKey \subseteq DOMAIN readStore.itemsByKey

(* on the key-value backend the keys are kept at every step of a call *)
KeysKeptOnKv == env.kv => KeysKept

(* a call that returns a result, or rejects before it writes, keeps the keys *)
KeysKeptUnlessWriteFails ==
  (ReturnedAny /\ call[1].result.reason # "write failed") => KeysKept

(* C38: a call of ensureStripeSyncForRange that returns range-covered or   *)
(* fresh-cache writes nothing: the persisted snapshot, including active    *)
(* range, cursor and exhausted flag, is identical before and after the     *)
(* call; and no call, whatever its outcome, removes a key from itemsByKey. *)
C38_SkipWritesNothingNoKeyRemoved ==
  /\ ReturnedSkipped => readStore = hist.persisted
  /\ ReturnedAny => KeysKept

----------------------------------------------------------------------------
(* The order of the callers of withWriteLock *)

InitQueue ==
  /\ InitBase([kv : BOOLEAN, maxInvoices : {MaxBatch}, autoSync : {"unset"}],
              {[NoHist EXCEPT !.obs = "lock"]}, MaxCallers)
  /\ pure = NoPure

(* fn of caller p starts, or is about to throw on its first request *)
Enter(p) == EnsureRun(p) \/ EnsureRunFail(p)

(* a step of the critical section of caller p *)
Proceed(p) ==
  FetchReturn(p) \/ FetchFail(p) \/ WriteTruncate(p) \/ WriteDone(p) \/ WriteFail(p)

NextQueue ==
  \/ \E p \in Callers : EnsureCall(p, 1, MaxDay, FALSE)
  \/ \E p \in Callers : EnsureRun(p)
  \/ \E p \in Callers : EnsureRunFail(p)
  \/ \E p \in Callers : FetchReturn(p)
  \/ \E p \in Callers : FetchFail(p)
  \/ \E p \in Callers : WriteTruncate(p)
  \/ \E p \in Callers : WriteDone(p)
  \/ \E p \in Callers : WriteFail(p)

SpecQueue == InitQueue /\ [][NextQueue]_vars

(* a settled link runs the callback chained on it, and every critical *)
(* section comes to its end                                           *)
SpecQueueFair ==
  /\ SpecQueue
  /\ \A p \in 1..MaxCallers : WF_vars(Enter(p)) /\ WF_vars(Proceed(p))

(* q called withWriteLock before p, and neither call has settled *)
Ahead(q, p) ==
  \E i \in 1..Len(chain), j \in 1..Len(chain) : i < j /\ chain[i] = q /\ chain[j] = p

(* the step on which fn of caller p is invoked *)
Enters(p) == call[p].pc = "queued" /\ call'[p].pc # "queued"

(* the step on which the call of caller p rejects *)
Rejects(p) == call[p].pc # "idle" /\ call'[p].pc = "idle" /\ call'[p].result.status = "rejected"

(* C39: callers of withWriteLock enter the critical section in the order *)
(* in which they called it, and every caller eventually enters it         *)
(* provided each earlier critical section terminates by returning or by   *)
(* throwing; a refresh that rejects neither blocks later callers nor      *)
(* makes them fail.                                                       *)
C39_CallersEnterInOrder ==
  /\ [][\A p \in 1..MaxCallers :
          Enters(p) => \A q \in 1..MaxCallers : ~Ahead(q, p) /\ ~InCritical(q)]_vars
  /\ \A p \in 1..MaxCallers : (call[p].pc = "queued") ~> (call[p].pc # "queued")
  /\ [][\A p \in 1..MaxCallers :
          Rejects(p) =>
            /\ \A q \in 1..MaxCallers \ {p} : call'[q] = call[q]
            /\ \A i \in 1..Len(chain') : chain'[i] # p]_vars

(* a caller that queued behind another is in its critical section after *)
(* the other's call has rejected                                        *)
C39_Witness ==
  /\ hist.waited
  /\ call[1].pc = "idle" /\ call[1].result.status = "rejected"
  /\ call[2].pc = "fetching"

====
